---- MODULE Spec2Model ----
(***************************************************************************)
(* Model of the Scholar-Scraper reconciliation engine and crawl control.   *)
(*                                                                         *)
(* Python dicts are functions from the keys that are present to values;    *)
(* every scalar value is a string and Python's None is the string None.    *)
(* An absent key and a key holding None are different dicts.  Ordered      *)
(* dicts (author_map, pub_map) are sequences with unique keys, in          *)
(* insertion order.  Objects (SimplifiedAuthor, SimplifiedPublication)     *)
(* are their instance __dict__.                                            *)
(***************************************************************************)
EXTENDS Integers, Sequences, FiniteSets, TLC

VARIABLES
    files,        \* path -> [exists, data]: the dataset files on disk
    now,          \* the wall clock, in days
    saves,        \* number of merge_and_save_results calls made so far
    lastOp,       \* which operation made the last save ("none" before any)
    lastPath,     \* results_file_path of the last save
    lastLoaded,   \* `existing` as loaded from the file by the last save
    lastBatch,    \* the records handed to the last save
    pc,           \* where the run is
    results_file, \* config['results_file']
    config_ids,   \* config['scholar_ids']
    threshold_days, \* config['rescrape_threshold_days']
    max_retries,  \* MAX_RETRIES of this build
    existing_authors, \* the runner's existing_authors
    scholarIds,   \* the ids handed to start_scraping
    skip_ids,     \* the skip hint handed to start_scraping
    idx,          \* position in scholarIds of the identity being crawled
    attempt,      \* crawl's loop variable i
    elapsed,      \* seconds since crawl's start_time
    authorsList,  \* ScholarScraper.authorsList
    outcome,      \* per position of scholarIds: how the identity ended
    spent,        \* per position of scholarIds: elapsed when it ended
    raised,       \* the exception in flight, if any
    exit_code,    \* the process exit status; -1 while running
    log,          \* what happened so far, in order
    session_file, \* .cache/last_solved_session.json, by what loading it gives
    validation    \* the responses to the validation requests made so far

fileVars == <<files, now, saves, lastOp, lastPath, lastLoaded, lastBatch>>
cfgVars == <<results_file, config_ids, threshold_days, max_retries>>
crawlVars == <<existing_authors, scholarIds, skip_ids, idx, attempt, elapsed,
               authorsList, outcome, spent, raised>>
runVars == <<pc, cfgVars, crawlVars, exit_code, log>>
sessVars == <<session_file, validation>>
vars == <<fileVars, runVars, sessVars>>

-----------------------------------------------------------------------------
(* Bounds *)

MaxPubs == 2      \* longest publication list of a fetched author
MaxSaves == 2     \* merge-and-save calls in one behaviour of SpecMerge
MaxRetries == 2   \* largest MAX_RETRIES a build is given

\* default_config['rescrape_threshold_days']
rescrape_threshold_days == 7

-----------------------------------------------------------------------------
(* Python values *)

None == "<None>"

\* d.get(k)
Get(d, k) == IF k \in DOMAIN d THEN d[k] ELSE None

\* bool(v) of a scalar: None and the empty string are falsy
Truthy(v) == v # None /\ v # ""

\* merged = existing.copy(); merged.update(pub)
DictUpdateDropAbsent(existing, pub) == pub
DictUpdate(existing, pub) ==
    [k \in DOMAIN existing \cup DOMAIN pub |->
        IF k \in DOMAIN pub THEN pub[k] ELSE existing[k]]

\* d[k] = v on a dict
DictSet(d, k, v) == [x \in DOMAIN d \cup {k} |-> IF x = k THEN v ELSE d[x]]

\* author.get('publications', []) or []
PubsOf(a) == IF "publications" \in DOMAIN a THEN a["publications"] ELSE <<>>

Range(s) == {s[i] : i \in 1..Len(s)}

PubId(p) == Get(p, "author_pub_id")

-----------------------------------------------------------------------------
(* Titles as character sequences, and the title normaliser *)

COMBINING_ACUTE == "U+0301"

\* the characters of the titles of the model's publications
TitleChars(t) ==
    CASE t = "Deep Learning!" ->
            <<"D","e","e","p"," ","L","e","a","r","n","i","n","g","!">>
      [] t = "deep   learning" ->
            <<"d","e","e","p"," "," "," ","l","e","a","r","n","i","n","g">>
      [] t = "Graph Theory" ->
            <<"G","r","a","p","h"," ","T","h","e","o","r","y">>
      [] t = "Deep Learning_" ->
            <<"D","e","e","p"," ","L","e","a","r","n","i","n","g","_">>
      [] t = "DEEP-LEARNING" ->
            <<"D","E","E","P","-","L","E","A","R","N","I","N","G">>
      [] OTHER -> <<>>

\* unicodedata.normalize('NFKD', ch): canonical/compatibility decomposition
NFKD(ch) ==
    CASE ch = "U+00E9" -> <<"e", COMBINING_ACUTE>>
      [] ch = "U+00C9" -> <<"E", COMBINING_ACUTE>>
      [] OTHER -> <<ch>>

\* unicodedata.combining(ch) # 0
Combining(ch) == ch = COMBINING_ACUTE

LowerAlpha == <<"a","b","c","d","e","f","g","h","i","j","k","l","m",
                "n","o","p","q","r","s","t","u","v","w","x","y","z">>
UpperAlpha == <<"A","B","C","D","E","F","G","H","I","J","K","L","M",
                "N","O","P","Q","R","S","T","U","V","W","X","Y","Z">>

\* \w of the re module: letters, digits and the underscore
IsWordChar(ch) == ch \in Range(LowerAlpha) \cup Range(UpperAlpha) \cup {"_", "1"}

\* \s of the re module
IsSpaceChar(ch) == ch \in {" ", "\t"}

\* str.lower() and str.upper() of one character
LowerChar(ch) ==
    IF ch \in Range(UpperAlpha)
    THEN LowerAlpha[CHOOSE i \in 1..Len(UpperAlpha) : UpperAlpha[i] = ch] ELSE ch
UpperChar(ch) ==
    IF ch \in Range(LowerAlpha)
    THEN UpperAlpha[CHOOSE i \in 1..Len(LowerAlpha) : LowerAlpha[i] = ch] ELSE ch

RECURSIVE Decompose(_)
Decompose(s) == IF s = <<>> THEN <<>> ELSE NFKD(Head(s)) \o Decompose(Tail(s))

\* ''.join(ch for ch in t if not unicodedata.combining(ch))
StripCombining(s) == SelectSeq(s, LAMBDA ch : ~Combining(ch))

\* re.sub(r"[^\w\s]", ' ', t)
PunctToSpace(s) ==
    [i \in 1..Len(s) |-> IF IsWordChar(s[i]) \/ IsSpaceChar(s[i]) THEN s[i] ELSE " "]

\* re.sub(r'\s+', ' ', t): every maximal run of whitespace becomes one space
RECURSIVE CollapseSpaces(_)
CollapseSpaces(s) ==
    IF s = <<>> THEN <<>>
    ELSE IF IsSpaceChar(Head(s))
         THEN IF Len(s) > 1 /\ IsSpaceChar(s[2])
              THEN CollapseSpaces(Tail(s))
              ELSE <<" ">> \o CollapseSpaces(Tail(s))
         ELSE <<Head(s)>> \o CollapseSpaces(Tail(s))

\* str.strip()
RECURSIVE StripLeft(_)
StripLeft(s) ==
    IF s # <<>> /\ IsSpaceChar(Head(s)) THEN StripLeft(Tail(s)) ELSE s

RECURSIVE StripRight(_)
StripRight(s) ==
    IF s # <<>> /\ IsSpaceChar(s[Len(s)])
    THEN StripRight(SubSeq(s, 1, Len(s) - 1)) ELSE s

Strip(s) == StripRight(StripLeft(s))

Lower(s) == [i \in 1..Len(s) |-> LowerChar(s[i])]
Upper(s) == [i \in 1..Len(s) |-> UpperChar(s[i])]

\* needle in hay, for strings as character sequences
Contains(hay, needle) ==
    \E i \in 0..(Len(hay) - Len(needle)) : SubSeq(hay, i + 1, i + Len(needle)) = needle

\* _normalize_title_for_dedupe on the characters of a title
NormalizeChars(s) ==
    Lower(Strip(CollapseSpaces(PunctToSpace(StripCombining(Decompose(s))))))

\* _normalize_title_for_dedupe(title); a falsy title gives ''
normalize_title_for_dedupe(title) ==
    IF ~Truthy(title) THEN <<>> ELSE NormalizeChars(TitleChars(title))

\* the dedupe key of a publication: the normalised title, or "__id__:" + pid
\* (no 'bib' key exists on a flattened publication, so only 'title' is read)
DedupeKey(p) ==
    LET normalized == normalize_title_for_dedupe(Get(p, "title"))
        pid == IF Truthy(Get(p, "author_pub_id")) THEN p["author_pub_id"] ELSE ""
    IN IF normalized # <<>> THEN normalized ELSE <<"__id__:", pid>>

-----------------------------------------------------------------------------
(* Objects and their serialisations *)

ClassAttributes == "<public attribute names>"

\* an instance of SimplifiedAuthor / SimplifiedPublication with the given __dict__
Obj(d) == [__dict__ |-> d]

IsObj(x) == DOMAIN x = {"__dict__"}

\* _make_serializable of a publication object: its whole __dict__
SerializablePub(p) == IF IsObj(p) THEN p["__dict__"] ELSE p

\* _make_serializable(obj): the object's __dict__, recursively; a dict stays a dict
make_serializable(x) ==
    IF ~IsObj(x) THEN x
    ELSE LET d == x["__dict__"]
         IN [k \in DOMAIN d |->
                IF k = "publications"
                THEN [i \in 1..Len(d[k]) |-> SerializablePub(d[k][i])]
                ELSE d[k]]

\* JSONEncoder.default: the items of __dict__ whose key is in _class_attributes,
\* the public attribute names, of which '_class_attributes' is none
EncodeDict(d) == [k \in DOMAIN d \ {"_class_attributes"} |-> d[k]]

\* json.loads(json.dumps(obj, cls=JSONEncoder)) of one author object
JsonOfAuthor(x) ==
    LET d == EncodeDict(x["__dict__"])
    IN [k \in DOMAIN d |->
           IF k = "publications"
           THEN [i \in 1..Len(d[k]) |-> EncodeDict(d[k][i]["__dict__"])]
           ELSE d[k]]

-----------------------------------------------------------------------------
(* Ordered dicts *)

\* position of `key` in an ordered dict keyed by `field`; 0 when absent
KeyIndex(m, field, key) ==
    IF \E i \in 1..Len(m) : Get(m[i], field) = key
    THEN CHOOSE i \in 1..Len(m) : Get(m[i], field) = key
    ELSE 0

\* m[key] = v: a known key keeps its position, a new key goes last
OrderedPut(m, field, key, v) ==
    LET i == KeyIndex(m, field, key)
    IN IF i = 0 THEN Append(m, v) ELSE [m EXCEPT ![i] = v]

-----------------------------------------------------------------------------
(* merge_and_save_results *)

\* author_map left empty: the stored records are not indexed
IndexAuthorsNone(existing, author_map) == author_map

\* author_map = {}; for a in existing: if sid: author_map[sid] = a
RECURSIVE IndexAuthors(_, _)
IndexAuthors(existing, author_map) ==
    IF existing = <<>> THEN author_map
    ELSE LET a == Head(existing)
             sid == Get(a, "scholar_id")
         IN IndexAuthors(Tail(existing),
                IF Truthy(sid) THEN OrderedPut(author_map, "scholar_id", sid, a)
                ELSE author_map)

\* pub_map = {p.get('author_pub_id'): p for p in old_pubs if p.get('author_pub_id')}
RECURSIVE IndexPubs(_, _)
IndexPubs(old_pubs, pub_map) ==
    IF old_pubs = <<>> THEN pub_map
    ELSE LET p == Head(old_pubs)
             pid == Get(p, "author_pub_id")
         IN IndexPubs(Tail(old_pubs),
                IF Truthy(pid) THEN OrderedPut(pub_map, "author_pub_id", pid, p)
                ELSE pub_map)

\* the loop over new_pubs: skip a publication without id, merge fields into a
\* known id, insert an unknown id
RECURSIVE MergeNewPubsReplace(_, _)
MergeNewPubsReplace(pub_map, new_pubs) ==
    IF new_pubs = <<>> THEN pub_map
    ELSE LET pub == Head(new_pubs)
             pid == Get(pub, "author_pub_id")
         IN MergeNewPubsReplace(
                IF ~Truthy(pid) THEN pub_map
                ELSE OrderedPut(pub_map, "author_pub_id", pid, pub),
                Tail(new_pubs))

RECURSIVE MergeNewPubs(_, _)
MergeNewPubs(pub_map, new_pubs) ==
    IF new_pubs = <<>> THEN pub_map
    ELSE LET pub == Head(new_pubs)
             pid == Get(pub, "author_pub_id")
             i == KeyIndex(pub_map, "author_pub_id", pid)
         IN MergeNewPubs(
                IF ~Truthy(pid) THEN pub_map
                ELSE IF i # 0
                     THEN [pub_map EXCEPT ![i] = DictUpdate(pub_map[i], pub)]
                     ELSE Append(pub_map, pub),
                Tail(new_pubs))

\* list(pub_map.values()) for an author already in author_map
MergePublications(old_pubs, new_pubs) ==
    MergeNewPubs(IndexPubs(old_pubs, <<>>), new_pubs)

\* the iteration without `if not scholar_id: continue`
MergeScrapedNoSkip(author_map, scraped0) ==
    LET scraped == make_serializable(scraped0)
        i == KeyIndex(author_map, "scholar_id", Get(scraped, "scholar_id"))
    IN IF i # 0
       THEN [author_map EXCEPT ![i] =
                DictSet(scraped, "publications",
                        MergePublications(PubsOf(author_map[i]), PubsOf(scraped)))]
       ELSE Append(author_map, DictSet(scraped, "publications", PubsOf(scraped)))

\* the iteration with the stored record's fields kept under the incoming ones
MergeScrapedKeepsOld(author_map, scraped0) ==
    IF DOMAIN scraped0 = {} THEN author_map
    ELSE LET scraped == make_serializable(scraped0)
             scholar_id == Get(scraped, "scholar_id")
             i == KeyIndex(author_map, "scholar_id", scholar_id)
         IN IF ~Truthy(scholar_id) THEN author_map
            ELSE IF i # 0
                 THEN [author_map EXCEPT ![i] =
                          DictSet(DictUpdate(author_map[i], scraped), "publications",
                                  MergePublications(PubsOf(author_map[i]), PubsOf(scraped)))]
                 ELSE Append(author_map, DictSet(scraped, "publications", PubsOf(scraped)))

\* one iteration of `for scraped in partial_authors`
MergeScraped(author_map, scraped0) ==
    IF DOMAIN scraped0 = {} THEN author_map
    ELSE LET scraped == make_serializable(scraped0)
             scholar_id == Get(scraped, "scholar_id")
             new_pubs == PubsOf(scraped)
             i == KeyIndex(author_map, "scholar_id", scholar_id)
         IN IF ~Truthy(scholar_id) THEN author_map
            ELSE IF i # 0
                 THEN [author_map EXCEPT ![i] =
                          DictSet(scraped, "publications",
                                  MergePublications(PubsOf(author_map[i]), new_pubs))]
                 ELSE Append(author_map, DictSet(scraped, "publications", new_pubs))

RECURSIVE MergeAll(_, _)
MergeAll(author_map, partial_authors) ==
    IF partial_authors = <<>> THEN author_map
    ELSE MergeAll(MergeScraped(author_map, Head(partial_authors)), Tail(partial_authors))

\* the merge loop over an author_map that starts without the stored authors
MergeStepFromEmpty(existing, partial_authors) == MergeAll(<<>>, partial_authors)

\* author_map when the merge loop ends, before stamping and deduplication
MergeStep(existing, partial_authors) ==
    MergeAll(IndexAuthors(existing, <<>>), partial_authors)

\* datetime.utcnow().isoformat() + 'Z'
IsoZ(t) == "day" \o ToString(t) \o "Z"

\* stamp every publication that has no truthy last_scraped
StampPubAlways(p, now_iso) == DictSet(p, "last_scraped", now_iso)
StampPubNever(p, now_iso) == p
StampPub(p, now_iso) ==
    IF Truthy(Get(p, "last_scraped")) THEN p ELSE DictSet(p, "last_scraped", now_iso)

\* the stamping loop without its `not p.get('last_scraped')` test
StampAuthorsAll(author_map, now_iso) ==
    [i \in 1..Len(author_map) |->
        DictSet(author_map[i], "publications",
                [j \in 1..Len(PubsOf(author_map[i])) |->
                    DictSet(PubsOf(author_map[i])[j], "last_scraped", now_iso)])]

StampAuthors(author_map, now_iso) ==
    [i \in 1..Len(author_map) |->
        IF PubsOf(author_map[i]) = <<>> THEN author_map[i]
        ELSE DictSet(author_map[i], "publications",
                [j \in 1..Len(PubsOf(author_map[i])) |->
                    StampPub(PubsOf(author_map[i])[j], now_iso)])]

\* the inner loop of the title deduplication over one author's publications:
\* <<new_pubs, seen_titles>> after the loop
DedupePubsKeepAll(pubs, new_pubs, seen_titles) == <<new_pubs \o pubs, seen_titles>>
RECURSIVE DedupePubs(_, _, _)
DedupePubs(pubs, new_pubs, seen_titles) ==
    IF pubs = <<>> THEN <<new_pubs, seen_titles>>
    ELSE LET normalized == DedupeKey(Head(pubs))
         IN IF normalized \in seen_titles
            THEN DedupePubs(Tail(pubs), new_pubs, seen_titles)
            ELSE DedupePubs(Tail(pubs), Append(new_pubs, Head(pubs)),
                            seen_titles \cup {normalized})

\* the outer loop with seen_titles emptied for each author
RECURSIVE DedupeAuthorsPerAuthor(_, _, _)
DedupeAuthorsPerAuthor(authors, done, seen_titles) ==
    IF authors = <<>> THEN done
    ELSE DedupeAuthorsPerAuthor(Tail(authors),
             Append(done, DictSet(Head(authors), "publications",
                                  DedupePubs(PubsOf(Head(authors)), <<>>, {})[1])), {})

\* the outer loop: one seen_titles set across all authors, in author_map order
RECURSIVE DedupeAuthors(_, _, _)
DedupeAuthors(authors, done, seen_titles) ==
    IF authors = <<>> THEN done
    ELSE LET a == Head(authors)
             r == DedupePubs(PubsOf(a), <<>>, seen_titles)
         IN DedupeAuthors(Tail(authors),
                Append(done, DictSet(a, "publications", r[1])), r[2])

\* json.load(f) or [] of an existing, readable file; [] when there is none
LoadExisting(file) == IF file.exists THEN file.data ELSE <<>>

\* `merged`, the list merge_and_save_results writes to results_file_path
MergedResults(existing, partial_authors, now_iso) ==
    DedupeAuthors(StampAuthors(MergeStep(existing, partial_authors), now_iso),
                  <<>>, {})

\* the file after the atomic write
WrittenFile(merged) == [exists |-> TRUE, data |-> merged]

-----------------------------------------------------------------------------
(* The runner's in-memory merge (scraper.py, after a crawl that returned) *)

\* the loops over old_pubs and new_pubs of the runner: the same statements as
\* in merge_and_save_results
RunnerMergePublications(old_pubs, new_pubs) ==
    MergeNewPubs(IndexPubs(old_pubs, <<>>), new_pubs)

\* one iteration of `for scraped_author in results`
RunnerMergeScraped(author_map, scraped_author) ==
    IF DOMAIN scraped_author = {} THEN author_map
    ELSE LET scholar_id == Get(scraped_author, "scholar_id")
             i == KeyIndex(author_map, "scholar_id", scholar_id)
         IN IF ~Truthy(scholar_id) THEN author_map
            ELSE IF i # 0
                 THEN [author_map EXCEPT ![i] =
                          DictSet(scraped_author, "publications",
                                  RunnerMergePublications(PubsOf(author_map[i]),
                                                          PubsOf(scraped_author)))]
                 ELSE Append(author_map, scraped_author)

RECURSIVE RunnerMergeAll(_, _)
RunnerMergeAll(author_map, results) ==
    IF results = <<>> THEN author_map
    ELSE RunnerMergeAll(RunnerMergeScraped(author_map, Head(results)), Tail(results))

\* merged_results = list(author_map.values())
RunnerMergedResults(stored_authors, results) ==
    RunnerMergeAll(IndexAuthors(stored_authors, <<>>), results)

-----------------------------------------------------------------------------
(* The records a fetch can return *)

\* attribute dicts of the publications an author page can show
PubRich == [author_pub_id |-> "p1", title |-> "Deep Learning!", pages |-> "1-9"]
PubSparse == [author_pub_id |-> "p1", title |-> "Deep Learning!"]
PubEmptyPages == [author_pub_id |-> "p1", title |-> "Deep Learning!", pages |-> ""]
PubTitleDup == [author_pub_id |-> "p2", title |-> "deep   learning"]
PubNoId == [title |-> "Graph Theory"]

\* the order in which an author page shows them
PubOrder == <<PubRich, PubSparse, PubEmptyPages, PubTitleDup, PubNoId>>

PubUniverse == Range(PubOrder)

PubRank(p) == CHOOSE i \in 1..Len(PubOrder) : PubOrder[i] = p

\* SimplifiedPublication(publication): the copied attributes and _class_attributes
SimplifiedPublication(attrs) ==
    Obj(DictSet(attrs, "_class_attributes", ClassAttributes))

\* publication lists of at most n entries out of `pubs`, in page order; the ids
\* on one author page are distinct
PubLists(pubs, n) ==
    { ps \in UNION {[1..k -> pubs] : k \in 0..n} :
        \A i, j \in 1..Len(ps) :
            i < j => /\ PubRank(ps[i]) < PubRank(ps[j])
                     /\ Truthy(Get(ps[i], "author_pub_id"))
                           => Get(ps[i], "author_pub_id") # Get(ps[j], "author_pub_id") }

\* SimplifiedAuthor(author, skip_ids) for a profile with the given attributes
SimplifiedAuthor(attrs, pubs) ==
    Obj(DictSet(DictSet(attrs, "publications",
                        [i \in 1..Len(pubs) |-> SimplifiedPublication(pubs[i])]),
                "_class_attributes", ClassAttributes))

\* what getAuthorData can return for a scholar id
AuthorObjects(id) ==
    IF id = "a1"
    THEN { SimplifiedAuthor([scholar_id |-> "a1", name |-> "Ann"], ps) :
              ps \in PubLists(PubUniverse, MaxPubs) }
    ELSE { SimplifiedAuthor(attrs, ps) :
              attrs \in { [scholar_id |-> id, name |-> "Bob"], [scholar_id |-> id] },
              ps \in PubLists({PubTitleDup, PubNoId}, MaxPubs - 1) }

ScholarIds == {"a1", "a2"}

-----------------------------------------------------------------------------
(* The dataset files *)

\* ScholarScraper._results_path(): results.json beside the gs_library package
RootResults == "<repo>/results.json"

\* another path a config.json can name as results_file
CustomResults == "<cwd>/custom.json"

Paths == {RootResults, CustomResults}

NoFile == [exists |-> FALSE, data |-> <<>>]

\* merge_and_save_results(partial_authors, path) at the time `now`; `given` is
\* what the caller started from (the records it was handed)
DoSave(op, path, partial_authors, given) ==
    /\ files' = [files EXCEPT ![path] =
           WrittenFile(MergedResults(LoadExisting(files[path]), partial_authors,
                                     IsoZ(now)))]
    /\ lastLoaded' = LoadExisting(files[path])
    /\ lastBatch' = given
    /\ lastPath' = path
    /\ lastOp' = op
    /\ saves' = saves + 1
    /\ now' = now + 1

-----------------------------------------------------------------------------
(* The session cache *)

\* what start_scraping finds at .cache/last_solved_session.json: the cache
\* directory cannot be made, no file, a file that does not open or parse, a
\* payload without cookies, a payload with cookies
CacheStates == {"no_cache_dir", "absent", "unreadable", "no_cookies", "cookies"}

\* the validation request raises
RequestFails == [raises |-> TRUE]

\* what test_sess.get returns: status_code, 'sorry' in the final url, and what
\* the lower-cased body holds
Response(status, sorry, body) ==
    [raises |-> FALSE, status |-> status, sorry |-> sorry, body |-> body]

\* the request raises, a plain page, and one response for each test of the
\* validation step
Responses ==
    { RequestFails, Response(200, FALSE, ""), Response(429, FALSE, ""),
      Response(302, FALSE, ""), Response(200, TRUE, ""),
      Response(200, FALSE, "captcha"), Response(200, FALSE, "unusual traffic") }

\* blocked, as the validation step computes it
Blocked(r) ==
    /\ ~r.raises
    /\ \/ r.status \in {429, 302}
       \/ r.sorry
       \/ r.body \in {"captcha", "unusual traffic"}

\* the validation request is made only for a payload with cookies
Validates(cache) == cache = "cookies"

\* the cache file after the validation step that never removes it
SessionFileKept(cache, r) == cache

\* the cache file after the validation step: os.remove when blocked
SessionFileAfter(cache, r) ==
    IF Validates(cache) /\ Blocked(r) THEN "absent" ELSE cache

\* no cache file, no request made
NoSession == session_file = "absent" /\ validation = <<>>

\* start_scraping's session block: every exception in it is swallowed
LoadSession ==
    IF Validates(session_file)
    THEN \E r \in Responses :
            /\ session_file' = SessionFileAfter(session_file, r)
            /\ validation' = Append(validation, r)
    ELSE UNCHANGED sessVars

-----------------------------------------------------------------------------
(* SpecMerge: the persistence operations, called with any fetched records *)

IdleRun ==
    /\ pc = "idle"
    /\ results_file = RootResults
    /\ config_ids = <<>>
    /\ threshold_days = rescrape_threshold_days
    /\ max_retries = 1
    /\ existing_authors = <<>>
    /\ scholarIds = <<>>
    /\ skip_ids = {}
    /\ idx = 0
    /\ attempt = 0
    /\ elapsed = 0
    /\ authorsList = <<>>
    /\ outcome = <<>>
    /\ spent = <<>>
    /\ raised = [typed |-> FALSE, prefix |-> "", text |-> ""]
    /\ exit_code = -1
    /\ log = <<>>
    /\ NoSession

InitMerge ==
    /\ files = [p \in Paths |-> NoFile]
    /\ now = 0
    /\ saves = 0
    /\ lastOp = "none"
    /\ lastPath = RootResults
    /\ lastLoaded = <<>>
    /\ lastBatch = <<>>
    /\ IdleRun

\* merge_and_save_results(partial_authors, results_file_path), as the partial
\* saves call it: with the SimplifiedAuthor objects collected so far
SavePartial ==
    /\ saves < MaxSaves
    /\ \E id \in ScholarIds :
         \E o \in AuthorObjects(id) : DoSave("partial", RootResults, <<o>>, <<o>>)
    /\ UNCHANGED <<runVars, sessVars>>

\* the runner after a crawl that returned: existing_authors merged in memory with
\* the parsed results, then merge_and_save_results(merged_results, results_file)
SaveFinal ==
    /\ saves < MaxSaves
    /\ \E id \in ScholarIds :
         \E o \in AuthorObjects(id) :
            DoSave("final", RootResults,
                   RunnerMergedResults(LoadExisting(files[RootResults]),
                                       <<JsonOfAuthor(o)>>),
                   <<JsonOfAuthor(o)>>)
    /\ UNCHANGED <<runVars, sessVars>>

NextMerge == SavePartial \/ SaveFinal

SpecMerge == InitMerge /\ [][NextMerge]_vars

-----------------------------------------------------------------------------
(* SpecBatch: merge_and_save_results called with whole batches of records *)

PubUnderscore == [author_pub_id |-> "p3", title |-> "Deep Learning_"]
PubHyphen == [author_pub_id |-> "p4", title |-> "DEEP-LEARNING"]

\* records as a crawl can collect them: authors with titles that differ in
\* case, punctuation and spacing, a record without scholar_id, one with an
\* empty scholar_id
BatchObjects ==
    [ ann    |-> SimplifiedAuthor([scholar_id |-> "a1", name |-> "Ann"],
                                  <<PubSparse, PubTitleDup, PubUnderscore>>),
      ann2   |-> SimplifiedAuthor([scholar_id |-> "a1", name |-> "Ann"],
                                  <<PubHyphen, PubSparse, PubNoId>>),
      bob    |-> SimplifiedAuthor([scholar_id |-> "a2", name |-> "Bob"],
                                  <<PubTitleDup>>),
      bob2   |-> SimplifiedAuthor([scholar_id |-> "a2", affiliation |-> "",
                                   coauthors |-> "<SimplifiedCoauthor Eve>"], <<>>),
      anon   |-> SimplifiedAuthor([name |-> "Eve"], <<PubNoId>>),
      noid   |-> SimplifiedAuthor([scholar_id |-> "", name |-> "Eve"], <<PubSparse>>) ]

Batches ==
    { <<BatchObjects.ann>>, <<BatchObjects.ann2>>, <<BatchObjects.bob>>,
      <<BatchObjects.bob2>>, <<>>,
      <<BatchObjects.anon>>,
      <<BatchObjects.anon, BatchObjects.bob>>,
      <<BatchObjects.ann2, BatchObjects.noid>>,
      <<BatchObjects.bob, BatchObjects.ann>>,
      <<BatchObjects.ann, BatchObjects.ann2>> }

\* merge_and_save_results(self.authorsList, path) with a batch of objects
SaveBatch ==
    /\ saves < MaxSaves
    /\ \E batch \in Batches : DoSave("partial", RootResults, batch, batch)
    /\ UNCHANGED <<runVars, sessVars>>

\* the runner's final path with a batch of parsed results
SaveBatchFinal ==
    /\ saves < MaxSaves
    /\ \E batch \in Batches :
          LET results == [i \in 1..Len(batch) |-> JsonOfAuthor(batch[i])]
          IN DoSave("final", RootResults,
                    RunnerMergedResults(LoadExisting(files[RootResults]), results),
                    results)
    /\ UNCHANGED <<runVars, sessVars>>

NextBatch == SaveBatch \/ SaveBatchFinal

SpecBatch == InitMerge /\ [][NextBatch]_vars

-----------------------------------------------------------------------------
(* Crawl control: constants and classification *)

MAX_RETRIES == 1
MAX_TIME_PER_AUTHOR == 30

\* the characters of the error texts of the model
MsgChars(msg) ==
    CASE msg = "Connection reset" ->
            <<"C","o","n","n","e","c","t","i","o","n"," ","r","e","s","e","t">>
      [] msg = "Unusual Traffic" ->
            <<"U","n","u","s","u","a","l"," ","T","r","a","f","f","i","c">>
      [] msg = "Max tries exceeded" ->
            <<"M","a","x"," ","t","r","i","e","s"," ","e","x","c","e","e","d","e","d">>
      [] msg = "Timeout - likely stuck on CAPTCHA" ->
            <<"T","i","m","e","o","u","t"," ","-"," ","l","i","k","e","l","y"," ",
              "s","t","u","c","k"," ","o","n"," ","C","A","P","T","C","H","A">>
      [] msg = "CAPTCHA encountered" ->
            <<"C","A","P","T","C","H","A"," ","e","n","c","o","u","n","t","e","r","e","d">>
      [] msg = "CAPTCHA_DETECTED: " ->
            <<"C","A","P","T","C","H","A","_","D","E","T","E","C","T","E","D",":"," ">>
      [] OTHER -> <<>>

CAPTCHA_KEYWORDS ==
    { <<"c","a","p","t","c","h","a">>,
      <<"u","n","u","s","u","a","l"," ","t","r","a","f","f","i","c">>,
      <<"n","o","t"," ","a"," ","r","o","b","o","t">>,
      <<"v","e","r","i","f","y"," ","y","o","u">>,
      <<"b","l","o","c","k","e","d">> }

\* check_for_captcha(error_msg)
check_for_captcha_case_sensitive(error_msg) ==
    \E keyword \in CAPTCHA_KEYWORDS : Contains(MsgChars(error_msg), keyword)
check_for_captcha(error_msg) ==
    \E keyword \in CAPTCHA_KEYWORDS : Contains(Lower(MsgChars(error_msg)), keyword)

\* an exception: whether it is a CaptchaDetectedException, and str(e) in two parts
Exc(typed, prefix, text) == [typed |-> typed, prefix |-> prefix, text |-> text]

NoExc == Exc(FALSE, "", "")

\* the is_captcha decision of start_scraping and of the runner's handlers
is_captcha_never(e) == FALSE
is_captcha(e) ==
    \/ e.typed
    \/ Contains(Upper(MsgChars(e.prefix) \o MsgChars(e.text)),
                <<"C","A","P","T","C","H","A","_","D","E","T","E","C","T","E","D">>)

\* what getAuthorData can raise for a scholar id: a transient error, an error
\* whose text names a block, the typed exception of scholarly
FetchErrors(id) ==
    { Exc(FALSE, "", "Connection reset"), Exc(FALSE, "", "Unusual Traffic") }
    \cup (IF id = "a1" THEN { Exc(TRUE, "", "Max tries exceeded") } ELSE {})

\* how long one getAuthorData call can take for a scholar id, in seconds
FetchDurations(id) == IF id = "a1" THEN {1, MAX_TIME_PER_AUTHOR + 1} ELSE {1}

\* what getAuthorData can return for a scholar id during a run
FetchObjects(id) ==
    IF id = "a1"
    THEN { SimplifiedAuthor([scholar_id |-> "a1", name |-> "Ann"], <<PubRich>>),
           SimplifiedAuthor([scholar_id |-> "a1", name |-> "Ann"], <<PubSparse, PubNoId>>) }
    ELSE { SimplifiedAuthor([scholar_id |-> id, name |-> "Bob"], <<PubTitleDup>>) }

\* min(2 ** i, 60)
Backoff(i) == IF 2 ^ i < 60 THEN 2 ^ i ELSE 60

-----------------------------------------------------------------------------
(* Freshness: which stored authors need scraping, which publications to skip *)

\* datetime.fromisoformat(last_scraped.replace('Z', '+00:00')) succeeds
IsoParses(s, t) == \E d \in 0..t : IsoZ(d) = s
IsoDay(s, t) == CHOOSE d \in 0..t : IsoZ(d) = s

\* the age test as `age >= threshold`
PubNeedsScrapingAtThreshold(pub, t, threshold) ==
    \/ ~Truthy(Get(pub, "last_scraped"))
    \/ ~IsoParses(pub["last_scraped"], t)
    \/ t - IsoDay(pub["last_scraped"], t) >= threshold

\* a publication that makes check_author_needs_scraping return the id
PubNeedsScraping(pub, t, threshold) ==
    \/ ~Truthy(Get(pub, "last_scraped"))
    \/ ~IsoParses(pub["last_scraped"], t)
    \/ t - IsoDay(pub["last_scraped"], t) > threshold

\* check_author_needs_scraping(author, threshold_days) returns the id, not None
check_author_needs_scraping(author, t, threshold) ==
    /\ Truthy(Get(author, "scholar_id"))
    /\ \/ PubsOf(author) = <<>>
       \/ \E i \in 1..Len(PubsOf(author)) :
             PubNeedsScraping(PubsOf(author)[i], t, threshold)

\* scholarIds when the config names none
RECURSIVE IdsNeedingScraping(_, _, _)
IdsNeedingScraping(authors, t, threshold) ==
    IF authors = <<>> THEN <<>>
    ELSE (IF check_author_needs_scraping(Head(authors), t, threshold)
          THEN <<Head(authors)["scholar_id"]>> ELSE <<>>)
         \o IdsNeedingScraping(Tail(authors), t, threshold)

\* the ids of all stored publications, whatever their last_scraped
AllPubIds(authors, t, threshold) ==
    { PubId(pub) :
        pub \in { x \in UNION { Range(PubsOf(authors[i])) : i \in 1..Len(authors) } :
                    Truthy(PubId(x)) } }

\* the skip hint with the age test as `age < threshold`
FreshPubIdsBelowThreshold(authors, t, threshold) ==
    { PubId(pub) :
        pub \in { x \in UNION { Range(PubsOf(authors[i])) : i \in 1..Len(authors) } :
                    /\ Truthy(Get(x, "last_scraped"))
                    /\ IsoParses(x["last_scraped"], t)
                    /\ t - IsoDay(x["last_scraped"], t) < threshold
                    /\ Truthy(PubId(x)) } }

\* set(skip_ids): the ids of the fresh publications
FreshPubIds(authors, t, threshold) ==
    { PubId(pub) :
        pub \in { x \in UNION { Range(PubsOf(authors[i])) : i \in 1..Len(authors) } :
                    /\ Truthy(Get(x, "last_scraped"))
                    /\ IsoParses(x["last_scraped"], t)
                    /\ t - IsoDay(x["last_scraped"], t) <= threshold
                    /\ Truthy(PubId(x)) } }

-----------------------------------------------------------------------------
(* Spec: one run of the runner *)

Event(ev, k, n) == [ev |-> ev, k |-> k, n |-> n]

\* the exception e that crawl's handler catches on attempt n of identity k
ErrorEvent(k, n, e) == [ev |-> "error", k |-> k, n |-> n, typed |-> e.typed, text |-> e.text]

\* datasets a former run can have left behind: none, one written more than
\* the threshold ago, one written a day ago, one of two authors
StoredDatasets ==
    { NoFile } \cup
    { WrittenFile(MergedResults(<<>>,
          <<SimplifiedAuthor([scholar_id |-> "a1", name |-> "Ann"], <<PubRich>>)>>,
          IsoZ(t))) : t \in {0, rescrape_threshold_days} } \cup
    { WrittenFile(MergedResults(<<>>,
          << SimplifiedAuthor([scholar_id |-> "a2", name |-> "Bob"], <<>>),
             SimplifiedAuthor([scholar_id |-> "a1", name |-> "Ann"], <<PubRich>>) >>,
          IsoZ(0))) }

ConfigIds == { <<>>, <<"a1">>, <<"a1", "a3", "a2">> }

Init ==
    /\ results_file \in Paths
    /\ \E ds \in StoredDatasets :
          files = [p \in Paths |-> IF p = results_file THEN ds ELSE NoFile]
    /\ now = rescrape_threshold_days + 1
    /\ saves = 0
    /\ lastOp = "none"
    /\ lastPath = RootResults
    /\ lastLoaded = <<>>
    /\ lastBatch = <<>>
    /\ pc = "boot"
    /\ config_ids \in ConfigIds
    /\ threshold_days = rescrape_threshold_days
    /\ max_retries \in MAX_RETRIES..MaxRetries
    /\ existing_authors = <<>>
    /\ scholarIds = <<>>
    /\ skip_ids = {}
    /\ idx = 0
    /\ attempt = 0
    /\ elapsed = 0
    /\ authorsList = <<>>
    /\ outcome = <<>>
    /\ spent = <<>>
    /\ raised = NoExc
    /\ exit_code = -1
    /\ log = <<>>
    /\ NoSession

\* the selection without the `if config_scholar_ids:` branch
SelectedIdsIgnoringConfig ==
    IdsNeedingScraping(LoadExisting(files[results_file]), now, threshold_days)

\* the ids the runner would crawl, from the config or from the stored dataset
SelectedIds ==
    IF config_ids # <<>> THEN config_ids
    ELSE IdsNeedingScraping(LoadExisting(files[results_file]), now,
                            threshold_days)

\* the exit with nothing to scrape, placed after the session block
NothingToDoAfterSession ==
    /\ pc = "boot"
    /\ SelectedIds = <<>>
    /\ existing_authors' = LoadExisting(files[results_file])
    /\ pc' = "exit"
    /\ exit_code' = 0
    /\ log' = Append(log, Event("exit", 0, 0))
    /\ LoadSession
    /\ UNCHANGED <<fileVars, cfgVars, scholarIds, skip_ids, idx, attempt, elapsed,
                   authorsList, outcome, spent, raised>>

\* the runner loads config and dataset and finds nothing to scrape: exit 0
NothingToDo ==
    /\ pc = "boot"
    /\ SelectedIds = <<>>
    /\ existing_authors' = LoadExisting(files[results_file])
    /\ pc' = "exit"
    /\ exit_code' = 0
    /\ log' = Append(log, Event("exit", 0, 0))
    /\ UNCHANGED <<fileVars, cfgVars, sessVars, scholarIds, skip_ids, idx, attempt, elapsed,
                   authorsList, outcome, spent, raised>>

\* the runner loads config and dataset, builds skip_ids and calls start_scraping,
\* which resets authorsList, loads the cached session and enters its loop
StartScraping ==
    /\ pc = "boot"
    /\ SelectedIds # <<>>
    /\ existing_authors' = LoadExisting(files[results_file])
    /\ scholarIds' = SelectedIds
    /\ skip_ids' = FreshPubIds(LoadExisting(files[results_file]), now,
                               threshold_days)
    /\ authorsList' = <<>>
    /\ idx' = 1
    /\ attempt' = 0
    /\ elapsed' = 0
    /\ outcome' = [k \in 1..Len(SelectedIds) |-> "pending"]
    /\ spent' = [k \in 1..Len(SelectedIds) |-> 0]
    /\ pc' = "crawl"
    /\ LoadSession
    /\ UNCHANGED <<fileVars, cfgVars, raised, exit_code, log>>

\* crawl: the next identity begins, or the next iteration of the retry loop
NextIdentity ==
    /\ idx' = idx + 1
    /\ attempt' = 0
    /\ elapsed' = 0

\* crawl raises Exception('CAPTCHA_DETECTED: ...'); start_scraping's handler
\* classifies it
HardAbort(text, total) ==
    /\ raised' = Exc(FALSE, "CAPTCHA_DETECTED: ", text)
    /\ outcome' = [outcome EXCEPT ![idx] = "HardAbort"]
    /\ spent' = [spent EXCEPT ![idx] = total]
    /\ pc' = IF is_captcha(Exc(FALSE, "CAPTCHA_DETECTED: ", text)) THEN "abort" ELSE "crawl"
    /\ idx' = IF is_captcha(Exc(FALSE, "CAPTCHA_DETECTED: ", text)) THEN idx ELSE idx + 1
    /\ UNCHANGED <<attempt, elapsed>>

\* top of the retry loop: the time budget is exceeded
TimeBudgetExceeded ==
    /\ pc = "crawl"
    /\ idx <= Len(scholarIds)
    /\ elapsed > MAX_TIME_PER_AUTHOR
    /\ HardAbort("Timeout - likely stuck on CAPTCHA", elapsed)
    /\ log' = Append(log, Event("timeout", idx, elapsed))
    /\ UNCHANGED <<fileVars, cfgVars, sessVars, existing_authors, scholarIds, skip_ids,
                   authorsList, exit_code>>

\* top of the retry loop: within budget, getAuthorData is called
AttemptFetchOverlapping ==
    /\ pc = "crawl"
    /\ idx <= Len(scholarIds)
    /\ elapsed <= MAX_TIME_PER_AUTHOR
    /\ log' = Append(log, Event("attempt", idx, attempt))
    /\ UNCHANGED <<fileVars, cfgVars, sessVars, pc, crawlVars, exit_code>>
AttemptFetch ==
    /\ pc = "crawl"
    /\ idx <= Len(scholarIds)
    /\ elapsed <= MAX_TIME_PER_AUTHOR
    /\ pc' = "fetching"
    /\ log' = Append(log, Event("attempt", idx, attempt))
    /\ UNCHANGED <<fileVars, cfgVars, sessVars, crawlVars, exit_code>>

\* getAuthorData returns: crawl returns the record, start_scraping appends it
FetchReturnsPrepend ==
    /\ pc = "fetching"
    /\ \E o \in FetchObjects(scholarIds[idx]), d \in FetchDurations(scholarIds[idx]) :
          /\ authorsList' = <<o>> \o authorsList
          /\ spent' = [spent EXCEPT ![idx] = elapsed + d]
    /\ outcome' = [outcome EXCEPT ![idx] = "Success"]
    /\ NextIdentity
    /\ pc' = "crawl"
    /\ log' = Append(log, Event("success", idx, attempt))
    /\ UNCHANGED <<fileVars, cfgVars, sessVars, existing_authors, scholarIds, skip_ids,
                   raised, exit_code>>
FetchReturns ==
    /\ pc = "fetching"
    /\ \E o \in FetchObjects(scholarIds[idx]), d \in FetchDurations(scholarIds[idx]) :
          /\ authorsList' = Append(authorsList, o)
          /\ spent' = [spent EXCEPT ![idx] = elapsed + d]
    /\ outcome' = [outcome EXCEPT ![idx] = "Success"]
    /\ NextIdentity
    /\ pc' = "crawl"
    /\ log' = Append(log, Event("success", idx, attempt))
    /\ UNCHANGED <<fileVars, cfgVars, sessVars, existing_authors, scholarIds, skip_ids,
                   raised, exit_code>>

\* getAuthorData raises with a text that check_for_captcha matches
FetchBlocked ==
    /\ pc = "fetching"
    /\ \E e \in FetchErrors(scholarIds[idx]), d \in FetchDurations(scholarIds[idx]) :
          /\ check_for_captcha(e.text)
          /\ HardAbort(e.text, elapsed + d)
          /\ log' = log \o <<ErrorEvent(idx, attempt, e), Event("blocked", idx, attempt)>>
    /\ UNCHANGED <<fileVars, cfgVars, sessVars, existing_authors, scholarIds, skip_ids,
                   authorsList, exit_code>>

\* getAuthorData raises, no keyword matches, iterations remain: sleep, new proxy
FetchRetryUnbounded ==
    /\ pc = "fetching"
    /\ \E e \in FetchErrors(scholarIds[idx]), d \in FetchDurations(scholarIds[idx]) :
          /\ ~check_for_captcha(e.text)
          /\ elapsed' = elapsed + d + Backoff(attempt)
          /\ log' = log \o << ErrorEvent(idx, attempt, e),
                              Event("wait", idx, Backoff(attempt)),
                              Event("rotate", idx, attempt) >>
    /\ attempt' = attempt + 1
    /\ pc' = "crawl"
    /\ UNCHANGED <<fileVars, cfgVars, sessVars, existing_authors, scholarIds, skip_ids, idx,
                   authorsList, outcome, spent, raised, exit_code>>
FetchRetry ==
    /\ pc = "fetching"
    /\ attempt < max_retries - 1
    /\ \E e \in FetchErrors(scholarIds[idx]), d \in FetchDurations(scholarIds[idx]) :
          /\ ~check_for_captcha(e.text)
          /\ elapsed' = elapsed + d + Backoff(attempt)
          /\ log' = log \o << ErrorEvent(idx, attempt, e),
                              Event("wait", idx, Backoff(attempt)),
                              Event("rotate", idx, attempt) >>
    /\ attempt' = attempt + 1
    /\ pc' = "crawl"
    /\ UNCHANGED <<fileVars, cfgVars, sessVars, existing_authors, scholarIds, skip_ids, idx,
                   authorsList, outcome, spent, raised, exit_code>>

\* getAuthorData raises, no keyword matches, it was the last iteration: crawl
\* returns None and start_scraping goes on with the next identity
FetchGivesUp ==
    /\ pc = "fetching"
    /\ attempt >= max_retries - 1
    /\ \E e \in FetchErrors(scholarIds[idx]), d \in FetchDurations(scholarIds[idx]) :
          /\ ~check_for_captcha(e.text)
          /\ spent' = [spent EXCEPT ![idx] = elapsed + d]
          /\ log' = Append(log, ErrorEvent(idx, attempt, e))
    /\ outcome' = [outcome EXCEPT ![idx] = "SoftFailure"]
    /\ NextIdentity
    /\ pc' = "crawl"
    /\ UNCHANGED <<fileVars, cfgVars, sessVars, existing_authors, scholarIds, skip_ids,
                   authorsList, raised, exit_code>>

\* start_scraping's handler: _save_partial_results(), then the exception is
\* raised to the runner
SavePartialResults ==
    /\ pc = "abort"
    /\ DoSave("partial", RootResults, authorsList, authorsList)
    /\ raised' = Exc(FALSE, "CAPTCHA_DETECTED: ", "CAPTCHA encountered")
    /\ pc' = "caller"
    /\ log' = Append(log, Event("partial_save", 0, Len(authorsList)))
    /\ UNCHANGED <<cfgVars, sessVars, existing_authors, scholarIds, skip_ids, idx, attempt,
                   elapsed, authorsList, outcome, spent, exit_code>>

\* the runner's handler, partial results at hand: save them to results_file, exit 3
HandlerSaves ==
    /\ pc = "caller"
    /\ is_captcha(raised)
    /\ authorsList # <<>>
    /\ DoSave("partial", results_file, authorsList, authorsList)
    /\ pc' = "exit"
    /\ exit_code' = 3
    /\ log' = log \o <<Event("handler_save", 0, Len(authorsList)), Event("exit", 0, 3)>>
    /\ UNCHANGED <<cfgVars, sessVars, crawlVars>>

\* the runner's handler, no partial results: exit 3 without saving
HandlerNoPartial ==
    /\ pc = "caller"
    /\ is_captcha(raised)
    /\ authorsList = <<>>
    /\ pc' = "exit"
    /\ exit_code' = 3
    /\ log' = Append(log, Event("exit", 0, 3))
    /\ UNCHANGED <<fileVars, cfgVars, sessVars, crawlVars>>

\* the loop of start_scraping, begun again when it is over
CrawlReturnsRestarts ==
    /\ pc = "crawl"
    /\ idx > Len(scholarIds)
    /\ idx' = 1
    /\ attempt' = 0
    /\ elapsed' = 0
    /\ UNCHANGED <<fileVars, cfgVars, sessVars, pc, existing_authors, scholarIds,
                   skip_ids, authorsList, outcome, spent, raised, exit_code, log>>

\* the loop of start_scraping is over: it returns the JSON text of authorsList
CrawlReturns ==
    /\ pc = "crawl"
    /\ idx > Len(scholarIds)
    /\ pc' = "returned"
    /\ UNCHANGED <<fileVars, cfgVars, sessVars, crawlVars, exit_code, log>>

\* the parsed results of start_scraping
ParsedResults == [k \in 1..Len(authorsList) |-> JsonOfAuthor(authorsList[k])]

\* the runner merges existing_authors with the results in memory, saves, exits 0
FinalSave ==
    /\ pc = "returned"
    /\ DoSave("final", results_file,
              RunnerMergedResults(existing_authors, ParsedResults), ParsedResults)
    /\ pc' = "exit"
    /\ exit_code' = 0
    /\ log' = log \o <<Event("final_save", 0, Len(authorsList)), Event("exit", 0, 0)>>
    /\ UNCHANGED <<cfgVars, sessVars, crawlVars>>

Next ==
    \/ NothingToDo
    \/ StartScraping
    \/ TimeBudgetExceeded
    \/ AttemptFetch
    \/ FetchReturns
    \/ FetchBlocked
    \/ FetchRetry
    \/ FetchGivesUp
    \/ SavePartialResults
    \/ HandlerSaves
    \/ HandlerNoPartial
    \/ CrawlReturns
    \/ FinalSave

Spec == Init /\ [][Next]_vars

-----------------------------------------------------------------------------
(* SpecSession: one run of the runner, over every state of the session cache *)

\* no dataset, or one written more than the threshold ago
SessionDatasets ==
    { NoFile,
      WrittenFile(MergedResults(<<>>,
          <<SimplifiedAuthor([scholar_id |-> "a1", name |-> "Ann"], <<PubRich>>)>>,
          IsoZ(0))) }

InitSession ==
    /\ results_file = RootResults
    /\ \E ds \in SessionDatasets :
          files = [p \in Paths |-> IF p = results_file THEN ds ELSE NoFile]
    /\ now = rescrape_threshold_days + 1
    /\ saves = 0
    /\ lastOp = "none"
    /\ lastPath = RootResults
    /\ lastLoaded = <<>>
    /\ lastBatch = <<>>
    /\ pc = "boot"
    /\ config_ids \in {<<>>, <<"a1", "a3">>}
    /\ threshold_days = rescrape_threshold_days
    /\ max_retries \in MAX_RETRIES..MaxRetries
    /\ existing_authors = <<>>
    /\ scholarIds = <<>>
    /\ skip_ids = {}
    /\ idx = 0
    /\ attempt = 0
    /\ elapsed = 0
    /\ authorsList = <<>>
    /\ outcome = <<>>
    /\ spent = <<>>
    /\ raised = NoExc
    /\ exit_code = -1
    /\ log = <<>>
    /\ session_file \in CacheStates
    /\ validation = <<>>

SpecSession == InitSession /\ [][Next]_vars

\* the steps of the runner, start_scraping and crawl that save nothing
CrawlStep ==
    \/ NothingToDo
    \/ StartScraping
    \/ TimeBudgetExceeded
    \/ AttemptFetch
    \/ FetchReturns
    \/ FetchBlocked
    \/ FetchRetry
    \/ FetchGivesUp
    \/ HandlerNoPartial
    \/ CrawlReturns

\* a call of merge_and_save_results returns to the code after it: the partial
\* save of start_scraping, the save of the runner's handler, the final save
SaveCompletes ==
    \/ pc = "abort" /\ pc' = "caller"
    \/ pc = "caller" /\ authorsList # <<>> /\ pc' = "exit"
    \/ pc = "returned" /\ pc' = "exit"

\* the run when the interpreter keeps running: the runner, start_scraping and
\* crawl are one sequential thread, every fetch attempt returns or raises, and
\* the loops of merge_and_save_results are over finite lists
SpecLive ==
    InitSession /\ [][Next]_vars /\ WF_vars(CrawlStep) /\ WF_pc(SaveCompletes)

-----------------------------------------------------------------------------
(* SpecSelect: the runner's start, over stored datasets of every freshness *)

\* the day the run starts
Today == 20

\* last_scraped values a stored publication can have: none, empty, not a
\* timestamp, and stamps of 15, 14, 10, 8, 7 and 1 days ago
Stamps == {None, "", "not-a-date"} \cup { IsoZ(Today - age) : age \in {15, 14, 10, 8, 7, 1} }

\* a stored publication: the one at position j has id "p<j>", or none
StoredPub(j, with_id, stamp) ==
    LET p == IF with_id THEN [author_pub_id |-> "p" \o ToString(j), title |-> "Graph Theory"]
             ELSE [author_pub_id |-> "", title |-> "Graph Theory"]
    IN IF stamp = None THEN p ELSE DictSet(p, "last_scraped", stamp)

\* stored datasets: author a1 with up to MaxPubs publications of any stamp,
\* alone or after an author a2 with one publication
SelectDatasets ==
    { NoFile } \cup
    { WrittenFile(others \o
          <<[scholar_id |-> "a1", name |-> "Ann",
             publications |-> [j \in DOMAIN st |->
                                  StoredPub(j, j > 1 \/ first_id, st[j])]]>>) :
        others \in { <<>> } \cup
                   { <<[scholar_id |-> "a2", name |-> "Bob",
                        publications |-> <<StoredPub(9, TRUE, x)>>]>> :
                        x \in {"not-a-date", IsoZ(Today - 8), IsoZ(Today - 7)} },
        first_id \in BOOLEAN,
        st \in UNION { [1..n -> Stamps] : n \in 0..MaxPubs } }

InitSelect ==
    /\ results_file = RootResults
    /\ \E ds \in SelectDatasets :
          files = [p \in Paths |-> IF p = results_file THEN ds ELSE NoFile]
    /\ now = Today
    /\ saves = 0
    /\ lastOp = "none"
    /\ lastPath = RootResults
    /\ lastLoaded = <<>>
    /\ lastBatch = <<>>
    /\ pc = "boot"
    /\ config_ids \in {<<>>, <<"a3", "a1">>}
    /\ threshold_days \in {rescrape_threshold_days, 2 * rescrape_threshold_days}
    /\ max_retries = MAX_RETRIES
    /\ existing_authors = <<>>
    /\ scholarIds = <<>>
    /\ skip_ids = {}
    /\ idx = 0
    /\ attempt = 0
    /\ elapsed = 0
    /\ authorsList = <<>>
    /\ outcome = <<>>
    /\ spent = <<>>
    /\ raised = NoExc
    /\ exit_code = -1
    /\ log = <<>>
    /\ session_file \in {"absent", "cookies"}
    /\ validation = <<>>

NextSelect == NothingToDo \/ StartScraping

SpecSelect == InitSelect /\ [][NextSelect]_vars

-----------------------------------------------------------------------------
(* SpecIO: a run with dataset files that do not load and writes that fail *)

\* what a dataset file can hold instead of a list of author objects: it cannot
\* be opened, it is not JSON (a truncated file included), it is a non-empty
\* JSON object, it is a list of numbers
Damage == {"unreadable", "not_json", "object", "scalars"}

DamagedFile(kind) == [exists |-> TRUE, data |-> <<>>, damage |-> kind]

IsDamaged(file, kinds) == "damage" \in DOMAIN file /\ file.damage \in kinds

\* load_existing_results returns the list as loaded: the runner's loops then
\* call .get on a number, which nothing catches
RunnerLoadRaises(file) == IsDamaged(file, {"scalars"})

\* merge_and_save_results: json.load succeeded with something that is not a
\* list of dicts, and `for a in existing: a.get(...)` raises outside any try
IndexRaises(file) == IsDamaged(file, {"object", "scalars"})

\* how the write of one save can go: well; the temporary write fails and the
\* direct write works; both fail, the second at open; both fail, the second
\* after the destination was opened for writing
WriteFaults == {"none", "tmp_fails", "open_fails", "dump_fails"}

\* merge_and_save_results raises to its caller
SaveRaises(file, fault) == IndexRaises(file) \/ fault \in {"open_fails", "dump_fails"}

SaveEvent(op, path, fault) ==
    [ev |-> "save", k |-> 0, n |-> Len(authorsList), op |-> op, path |-> path,
     before |-> files[path], fault |-> fault, failed |-> SaveRaises(files[path], fault)]

\* merge_and_save_results(partial_authors, path) under a write fault
DoSaveIO(op, path, partial_authors, given, fault) ==
    /\ files' = [files EXCEPT ![path] =
           IF IndexRaises(files[path]) \/ fault = "open_fails" THEN @
           ELSE IF fault = "dump_fails" THEN DamagedFile("not_json")
           ELSE WrittenFile(MergedResults(LoadExisting(files[path]), partial_authors,
                                          IsoZ(now)))]
    /\ lastLoaded' = LoadExisting(files[path])
    /\ lastBatch' = given
    /\ lastPath' = path
    /\ lastOp' = op
    /\ saves' = saves + 1
    /\ now' = now + 1
    /\ log' = Append(log, SaveEvent(op, path, fault))

InitIO ==
    /\ results_file \in Paths
    /\ \E ds \in {NoFile} \cup { DamagedFile(kind) : kind \in Damage }
                 \cup { WrittenFile(MergedResults(<<>>,
                          <<SimplifiedAuthor([scholar_id |-> "a1", name |-> "Ann"],
                                             <<PubRich>>)>>, IsoZ(0))) } :
          files = [p \in Paths |-> IF p = results_file THEN ds ELSE NoFile]
    /\ now = rescrape_threshold_days + 1
    /\ saves = 0
    /\ lastOp = "none"
    /\ lastPath = RootResults
    /\ lastLoaded = <<>>
    /\ lastBatch = <<>>
    /\ pc = "boot"
    /\ config_ids \in {<<>>, <<"a3", "a1">>}
    /\ threshold_days = rescrape_threshold_days
    /\ max_retries = MAX_RETRIES
    /\ existing_authors = <<>>
    /\ scholarIds = <<>>
    /\ skip_ids = {}
    /\ idx = 0
    /\ attempt = 0
    /\ elapsed = 0
    /\ authorsList = <<>>
    /\ outcome = <<>>
    /\ spent = <<>>
    /\ raised = NoExc
    /\ exit_code = -1
    /\ log = <<>>
    /\ NoSession

\* the runner's loops over existing_authors raise AttributeError: outside the
\* try blocks, or re-raised by the first handler; the interpreter exits 1
RunnerCrashes ==
    /\ pc = "boot"
    /\ RunnerLoadRaises(files[results_file])
    /\ pc' = "exit"
    /\ exit_code' = 1
    /\ log' = Append(log, Event("exit", 0, 1))
    /\ UNCHANGED <<fileVars, cfgVars, sessVars, crawlVars>>

NothingToDoIO == ~RunnerLoadRaises(files[results_file]) /\ NothingToDo

StartScrapingIO == ~RunnerLoadRaises(files[results_file]) /\ StartScraping

\* start_scraping's handler: _save_partial_results() logs a failed save and
\* returns; the exception is raised to the runner
SavePartialResultsIO ==
    /\ pc = "abort"
    /\ \E fault \in WriteFaults :
          DoSaveIO("partial", RootResults, authorsList, authorsList, fault)
    /\ raised' = Exc(FALSE, "CAPTCHA_DETECTED: ", "CAPTCHA encountered")
    /\ pc' = "caller"
    /\ UNCHANGED <<cfgVars, sessVars, existing_authors, scholarIds, skip_ids, idx, attempt,
                   elapsed, authorsList, outcome, spent, exit_code>>

\* the runner's handler, partial results at hand: a failed save is logged; exit 3
HandlerSavesIO ==
    /\ pc = "caller"
    /\ is_captcha(raised)
    /\ authorsList # <<>>
    /\ \E fault \in WriteFaults :
          DoSaveIO("partial", results_file, authorsList, authorsList, fault)
    /\ pc' = "exit"
    /\ exit_code' = 3
    /\ UNCHANGED <<cfgVars, sessVars, crawlVars>>

\* the final save with its error swallowed
FinalSaveIOSwallows ==
    /\ pc = "returned"
    /\ \E fault \in WriteFaults :
          DoSaveIO("final", results_file,
                   RunnerMergedResults(existing_authors, ParsedResults),
                   ParsedResults, fault)
    /\ exit_code' = 0
    /\ pc' = "exit"
    /\ UNCHANGED <<cfgVars, sessVars, crawlVars>>

\* the runner's final save: exit 0 when it returned, exit 2 when it raised
FinalSaveIO ==
    /\ pc = "returned"
    /\ \E fault \in WriteFaults :
          /\ DoSaveIO("final", results_file,
                      RunnerMergedResults(existing_authors, ParsedResults),
                      ParsedResults, fault)
          /\ exit_code' = IF SaveRaises(files[results_file], fault) THEN 2 ELSE 0
    /\ pc' = "exit"
    /\ UNCHANGED <<cfgVars, sessVars, crawlVars>>

NextIO ==
    \/ RunnerCrashes
    \/ NothingToDoIO
    \/ StartScrapingIO
    \/ AttemptFetch
    \/ FetchReturns
    \/ FetchBlocked
    \/ FetchGivesUp
    \/ SavePartialResultsIO
    \/ HandlerSavesIO
    \/ HandlerNoPartial
    \/ CrawlReturns
    \/ FinalSaveIO

SpecIO == InitIO /\ [][NextIO]_vars

-----------------------------------------------------------------------------
(* The last save, replayed: what each of its steps had in hand *)

\* the stored record of scholar id `sid` in a dataset, as author_map holds it
HasAuthor(dataset, sid) == KeyIndex(IndexAuthors(dataset, <<>>), "scholar_id", sid) # 0
AuthorOf(dataset, sid) ==
    IndexAuthors(dataset, <<>>)[KeyIndex(IndexAuthors(dataset, <<>>), "scholar_id", sid)]

\* the incoming records of the last save, as dicts
LastIncoming == [i \in 1..Len(lastBatch) |-> make_serializable(lastBatch[i])]

\* the list the last call of merge_and_save_results was given
LastPartialAuthors ==
    IF lastOp = "final" THEN RunnerMergedResults(lastLoaded, lastBatch) ELSE lastBatch

\* author_map of the last merge_and_save_results call after its merge loop
LastMergeStep == MergeStep(lastLoaded, LastPartialAuthors)

\* every author_map a merge step of the last save produced: the runner's own
\* (for a final save) and the one of merge_and_save_results
LastMergeOutputs ==
    IF lastOp = "final"
    THEN {RunnerMergedResults(lastLoaded, lastBatch), LastMergeStep}
    ELSE {LastMergeStep}

\* the pairs <<stored author, incoming record>> the last save merged
LastMergedPairs ==
    { <<AuthorOf(lastLoaded, Get(r, "scholar_id")), r>> :
        r \in { x \in Range(LastIncoming) :
                  /\ Truthy(Get(x, "scholar_id"))
                  /\ HasAuthor(lastLoaded, Get(x, "scholar_id")) } }

\* the pairs <<stored publication, incoming publication, author id>> with one
\* non-empty author_pub_id that the last save merged
LastMergedPubs ==
    UNION { { <<e, q, Get(pr[2], "scholar_id")>> :
                e \in { x \in Range(PubsOf(pr[1])) : Truthy(PubId(x)) },
                q \in Range(PubsOf(pr[2])) } : pr \in LastMergedPairs }

SamePub(t) == PubId(t[1]) = PubId(t[2])

\* the publications with id `pid` of author `sid` in a list of authors
PubsWithId(authors, sid, pid) ==
    IF ~HasAuthor(authors, sid) THEN {}
    ELSE { m \in Range(PubsOf(AuthorOf(authors, sid))) : PubId(m) = pid }

-----------------------------------------------------------------------------
(* C1 *)

\* C1: when a save merges an incoming publication into a stored publication of
\* the same author with the same non-empty author_pub_id, every field absent on
\* the incoming publication still has, on the merged publication, the value the
\* stored publication had: in every merge step's output, and in the file for as
\* long as the publication survives the deduplication.
C1_AbsentFieldsKept ==
    lastOp # "none" =>
        \A t \in LastMergedPubs :
            SamePub(t) =>
                /\ \A out \in LastMergeOutputs :
                     /\ PubsWithId(out, t[3], PubId(t[1])) # {}
                     /\ \A m \in PubsWithId(out, t[3], PubId(t[1])) :
                          \A f \in DOMAIN t[1] \ DOMAIN t[2] :
                             f \in DOMAIN m /\ m[f] = t[1][f]
                /\ \A m \in PubsWithId(files[lastPath].data, t[3], PubId(t[1])) :
                     \A f \in DOMAIN t[1] \ DOMAIN t[2] :
                        f \in DOMAIN m /\ m[f] = t[1][f]

\* a save merged a publication without `pages` into a stored one with pages
\* "1-9", and the file holds that publication with its pages
C1_Witness ==
    /\ lastOp # "none"
    /\ \E t \in LastMergedPubs :
          /\ SamePub(t)
          /\ Get(t[1], "pages") = "1-9"
          /\ "pages" \notin DOMAIN t[2]
          /\ \E m \in PubsWithId(files[lastPath].data, t[3], PubId(t[1])) :
                Get(m, "pages") = "1-9"

-----------------------------------------------------------------------------
(* C2 *)

\* C2: when a save merges an incoming publication into a stored publication
\* with the same non-empty author_pub_id, a field that is present but empty on
\* the incoming publication still has, on the merged publication, the non-empty
\* value the stored publication had.
C2_EmptyFieldsKept ==
    lastOp # "none" =>
        \A t \in LastMergedPubs :
            SamePub(t) =>
                \A m \in PubsWithId(LastMergeStep, t[3], PubId(t[1])) :
                    \A f \in DOMAIN t[1] \cap DOMAIN t[2] :
                        (Truthy(t[1][f]) /\ ~Truthy(t[2][f])) => Get(m, f) = t[1][f]

-----------------------------------------------------------------------------
(* C3 *)

\* C3: a save that is given the same records as the save before it, by the same
\* operation on the same file, leaves the dataset file as that save wrote it.
C3_Idempotent ==
    [][(saves >= 1 /\ saves' = saves + 1 /\ lastBatch' = lastBatch
            /\ lastOp' = lastOp /\ lastPath' = lastPath)
        => files'[lastPath] = files[lastPath]]_vars

-----------------------------------------------------------------------------
(* C4 *)

\* a publication is still in a list: under its id when it has one, as itself
\* (stamped or not) when it has none
StillIn(e, pubs) ==
    IF Truthy(PubId(e)) THEN \E m \in Range(pubs) : PubId(m) = PubId(e)
    ELSE \E m \in Range(pubs) :
            \A f \in DOMAIN e : f \in DOMAIN m /\ m[f] = e[f]

\* C4: for an author already stored, every publication of the stored list (with
\* or without author_pub_id) is still in the list the merge step produces,
\* before the deduplication runs.
C4_NoPublicationLost ==
    lastOp # "none" =>
        \A pr \in LastMergedPairs :
            \A out \in LastMergeOutputs :
                \A k \in 1..Len(PubsOf(pr[1])) :
                    StillIn(PubsOf(pr[1])[k],
                            PubsOf(AuthorOf(out, Get(pr[2], "scholar_id"))))

-----------------------------------------------------------------------------
(* C5 *)

\* C5: an incoming publication with an absent or empty author_pub_id, merged
\* into an author that is already stored, is in that author's merged list.
C5_NoIdInserted ==
    lastOp # "none" =>
        \A pr \in LastMergedPairs :
            \A q \in Range(PubsOf(pr[2])) :
                ~Truthy(PubId(q)) =>
                    \A out \in LastMergeOutputs :
                        StillIn(q, PubsOf(AuthorOf(out, Get(pr[2], "scholar_id"))))

-----------------------------------------------------------------------------
(* The run, read back from its log *)

\* the scholar ids of a list of author dicts
AuthorIds(dataset) == { Get(dataset[i], "scholar_id") : i \in 1..Len(dataset) }

\* the records fetched so far in the run, as dicts
Fetched == [i \in 1..Len(authorsList) |-> make_serializable(authorsList[i])]

\* all publications of a list of author dicts
AllPubs(dataset) == UNION { Range(PubsOf(dataset[i])) : i \in 1..Len(dataset) }

\* some identity of the run ended in the given outcome
SomeOutcome(o) == \E k \in DOMAIN outcome : outcome[k] = o

-----------------------------------------------------------------------------
(* C6 *)

\* C6: when the abort error is at the caller, the last thing that happened is
\* the partial merge-and-save of exactly the records accumulated so far, and
\* all of their authors are in the written file; no fetch attempt is logged
\* after a block or a timeout, and every identity after the one that ended in
\* HardAbort is still untouched.
C6_SaveThenStop ==
    /\ pc = "caller" =>
          /\ lastOp = "partial"
          /\ lastBatch = authorsList
          /\ log[Len(log)].ev = "partial_save"
          /\ files[lastPath] =
                WrittenFile(MergedResults(lastLoaded, authorsList, IsoZ(now - 1)))
          /\ AuthorIds(Fetched) \subseteq AuthorIds(files[lastPath].data)
    /\ \A i \in DOMAIN log : \A j \in DOMAIN log :
          (i < j /\ log[i].ev \in {"blocked", "timeout"}) => log[j].ev # "attempt"
    /\ \A k \in DOMAIN outcome :
          outcome[k] = "HardAbort" =>
              /\ pc \in {"abort", "caller", "exit"}
              /\ \A j \in DOMAIN outcome : j > k => outcome[j] = "pending"

\* an abort with records accumulated and a later identity left unprocessed
C6_Witness ==
    /\ pc = "caller"
    /\ authorsList # <<>>
    /\ idx < Len(scholarIds)
    /\ SomeOutcome("HardAbort")

-----------------------------------------------------------------------------
(* C7 *)

\* C7: a run that ends after a block with some identities fetched ends with
\* exit code 3, the configured file holds the authors stored before the run
\* and the fetched ones and no others, and every publication fetched in the
\* run is in the file (itself, or the publication it was deduplicated against).
C7_AbortDurability ==
    (pc = "exit" /\ SomeOutcome("HardAbort") /\ SomeOutcome("Success")) =>
        /\ exit_code = 3
        /\ AuthorIds(files[results_file].data) =
              AuthorIds(existing_authors) \cup AuthorIds(Fetched)
        /\ \A q \in AllPubs(Fetched) :
              \E m \in AllPubs(files[results_file].data) : DedupeKey(m) = DedupeKey(q)

-----------------------------------------------------------------------------
(* C8 *)

\* C8: once crawl has caught an error whose text, lowercased, contains a block
\* keyword, the identity is in HardAbort and nothing more is logged for it but
\* the detection itself: no wait, no proxy rotation, no attempt.
C8_BlockedAbortsAtOnce ==
    \A i \in DOMAIN log :
        (/\ log[i].ev = "error"
         /\ \E keyword \in CAPTCHA_KEYWORDS :
               Contains(Lower(MsgChars(log[i].text)), keyword))
        => /\ outcome[log[i].k] = "HardAbort"
           /\ \A j \in DOMAIN log :
                 (j > i /\ log[j].k = log[i].k) => log[j].ev = "blocked"

\* a block met on an attempt that was not the last one allowed
C8_Witness ==
    \E i \in DOMAIN log :
        /\ log[i].ev = "blocked"
        /\ log[i].n < max_retries - 1
        /\ pc = "exit"

-----------------------------------------------------------------------------
(* C9 *)

\* C9: an identity for which crawl has caught the typed challenge-detected
\* exception ends in HardAbort and in no other outcome, and the run then ends
\* with exit code 3, whatever the text of the exception.
C9_TypedSignalAborts ==
    \A i \in DOMAIN log :
        (log[i].ev = "error" /\ log[i].typed /\ outcome[log[i].k] # "pending") =>
            /\ outcome[log[i].k] = "HardAbort"
            /\ pc = "exit" => exit_code = 3

-----------------------------------------------------------------------------
(* C10 *)

\* C10: an identity that ended in Success or SoftFailure spent no more than
\* the per-identity budget from its first attempt to the end of its last one.
C10_WithinBudget ==
    \A k \in DOMAIN outcome :
        outcome[k] \in {"Success", "SoftFailure"} => spent[k] <= MAX_TIME_PER_AUTHOR

-----------------------------------------------------------------------------
(* C11 *)

\* the positions of the log with event `ev` of identity k
EventsOf(k, ev) == { i \in DOMAIN log : log[i].ev = ev /\ log[i].k = k }

\* an error text that names a block, by the keywords and whatever its case
NamesBlock(text) ==
    \E keyword \in CAPTCHA_KEYWORDS : Contains(Lower(MsgChars(text)), keyword)

\* C11: no identity gets more than max_retries fetch attempts; an identity that
\* ended in SoftFailure got exactly max_retries; and an identity that has ended
\* with every attempt failed on a text naming no block, and without a timeout,
\* ended in SoftFailure after exactly max_retries attempts.
C11_BoundedRetries ==
    \A k \in DOMAIN outcome :
        /\ Cardinality(EventsOf(k, "attempt")) <= max_retries
        /\ outcome[k] = "SoftFailure" =>
              Cardinality(EventsOf(k, "attempt")) = max_retries
        /\ (/\ outcome[k] # "pending"
            /\ EventsOf(k, "success") = {}
            /\ EventsOf(k, "timeout") = {}
            /\ \A i \in EventsOf(k, "error") : ~NamesBlock(log[i].text))
           => /\ outcome[k] = "SoftFailure"
              /\ Cardinality(EventsOf(k, "error")) = max_retries
              /\ Cardinality(EventsOf(k, "attempt")) = max_retries

\* an identity given up after more than one attempt, all failed
C11_Witness ==
    \E k \in DOMAIN outcome :
        /\ outcome[k] = "SoftFailure"
        /\ max_retries >= 2
        /\ Cardinality(EventsOf(k, "error")) = max_retries

-----------------------------------------------------------------------------
(* C12 *)

\* the seconds waited for identity k in the first n entries of the log
RECURSIVE WaitedIn(_, _)
WaitedIn(k, n) ==
    IF n = 0 THEN 0
    ELSE WaitedIn(k, n - 1)
         + (IF log[n].ev = "wait" /\ log[n].k = k THEN log[n].n ELSE 0)

-----------------------------------------------------------------------------
(* C13 *)

\* the run has ended with its final save
FinalSaved == pc = "exit" /\ exit_code = 0 /\ lastOp = "final"

\* the identities that ended in SoftFailure
SoftFailed == { k \in DOMAIN outcome : outcome[k] = "SoftFailure" }

\* the dedupe keys held by the authors before position n of a dataset
KeysBefore(dataset, n) == { DedupeKey(p) : p \in AllPubs(SubSeq(dataset, 1, n - 1)) }

\* the stored record as the save leaves it when nothing is merged into it: its
\* publications without those whose key an earlier author of the file holds
AfterDedupe(before, dataset) ==
    LET n == KeyIndex(dataset, "scholar_id", Get(before, "scholar_id"))
        Kept(p) == DedupeKey(p) \notin KeysBefore(dataset, n)
    IN IF PubsOf(before) = <<>> THEN before
       ELSE DictSet(before, "publications", SelectSeq(PubsOf(before), Kept))

-----------------------------------------------------------------------------
(* C14 *)

\* the ids of the first n identities that ended in Success, in the order supplied
RECURSIVE SucceededIds(_)
SucceededIds(n) ==
    IF n = 0 THEN <<>>
    ELSE SucceededIds(n - 1)
         \o (IF outcome[n] = "Success" THEN <<scholarIds[n]>> ELSE <<>>)

\* the run is aborting or has aborted
Aborted == pc \in {"abort", "caller"} \/ (pc = "exit" /\ exit_code = 3)

\* C14: fetch attempts are logged in the order of scholarIds, and from the
\* moment of an abort on, the accumulated results are the records of the
\* identities before the aborting one that ended in Success, in that order,
\* with none of the aborting identity or of a later one.
C14_OrderedPrefix ==
    /\ \A i \in DOMAIN log : \A j \in DOMAIN log :
          (i < j /\ log[i].ev = "attempt" /\ log[j].ev = "attempt")
              => log[i].k <= log[j].k
    /\ Aborted =>
          /\ outcome[idx] = "HardAbort"
          /\ [i \in 1..Len(Fetched) |-> Get(Fetched[i], "scholar_id")]
                = SucceededIds(idx - 1)
          /\ \A j \in idx..Len(scholarIds) :
                \A i \in 1..Len(Fetched) : Get(Fetched[i], "scholar_id") # scholarIds[j]

\* an abort on the third identity after two were fetched
C14_Witness ==
    /\ pc = "caller"
    /\ Len(authorsList) = 2
    /\ idx = 3

-----------------------------------------------------------------------------
(* C15 *)

-----------------------------------------------------------------------------
(* C16 *)

\* two entries of a publication list have the same dedupe key
HasDuplicateKey(pubs) ==
    \E i \in 1..Len(pubs) : \E j \in 1..Len(pubs) :
        i < j /\ DedupeKey(pubs[i]) = DedupeKey(pubs[j])

\* C16: in every dataset file a save has written, no author's publication list
\* holds two publications with the same dedupe key.
C16_NoDuplicateKeyPerAuthor ==
    \A path \in Paths :
        \A i \in 1..Len(files[path].data) :
            ~HasDuplicateKey(PubsOf(files[path].data[i]))

\* a save whose merged list, before the deduplication, had an author with two
\* publications of one key
C16_Witness ==
    /\ saves >= 1
    /\ \E i \in 1..Len(LastMergeStep) : HasDuplicateKey(PubsOf(LastMergeStep[i]))

-----------------------------------------------------------------------------
(* C17 *)

\* the list the deduplication of the last save was given: author_map after the
\* merge loop and the stamping
LastDedupeInput == StampAuthors(LastMergeStep, IsoZ(now - 1))

\* the entries of a sequence at the positions in `keep`, from position n on
RECURSIVE EntriesAt(_, _, _)
EntriesAt(seq, keep, n) ==
    IF n > Len(seq) THEN <<>>
    ELSE (IF n \in keep THEN <<seq[n]>> ELSE <<>>) \o EntriesAt(seq, keep, n + 1)

\* the positions of author a's list whose publication is the first one with
\* its key in the order of the pass (earlier authors, then earlier entries)
FirstSeenAt(authors, a) ==
    { i \in 1..Len(PubsOf(authors[a])) :
        /\ DedupeKey(PubsOf(authors[a])[i]) \notin KeysBefore(authors, a)
        /\ \A j \in 1..(i - 1) :
              DedupeKey(PubsOf(authors[a])[j]) # DedupeKey(PubsOf(authors[a])[i]) }

\* a title with case, punctuation (every character that is no letter, digit
\* or space) and runs of whitespace taken out
PlainTitle(title) ==
    LET chars == TitleChars(title)
        NoPunct == [i \in 1..Len(chars) |->
                       IF chars[i] \in Range(LowerAlpha) \cup Range(UpperAlpha) \cup {"1"}
                       THEN chars[i] ELSE " "]
    IN Lower(Strip(CollapseSpaces(NoPunct)))

\* C17: the list a save writes for an author is the list the deduplication was
\* given, reduced to the publications that are the first of their dedupe key in
\* the order of the pass, each unchanged; and no two publications that the
\* save writes have titles that differ only by case, punctuation or runs of
\* whitespace.
C17_FirstSeenWins ==
    saves >= 1 =>
        /\ Len(files[lastPath].data) = Len(LastDedupeInput)
        /\ \A a \in 1..Len(LastDedupeInput) :
              PubsOf(files[lastPath].data[a])
                 = EntriesAt(PubsOf(LastDedupeInput[a]),
                             FirstSeenAt(LastDedupeInput, a), 1)
        /\ \A p \in AllPubs(files[lastPath].data) :
              \A q \in AllPubs(files[lastPath].data) :
                  (/\ p # q
                   /\ Truthy(Get(p, "title"))
                   /\ Truthy(Get(q, "title")))
                  => PlainTitle(p["title"]) # PlainTitle(q["title"])

-----------------------------------------------------------------------------
(* C18 *)

\* the positions of the last batch whose record carries a scholar_id
WithId == { i \in 1..Len(LastIncoming) : Truthy(Get(LastIncoming[i], "scholar_id")) }

\* position i is the last one of the batch with its scholar_id
LastOfId(i) ==
    \A j \in WithId :
        Get(LastIncoming[j], "scholar_id") = Get(LastIncoming[i], "scholar_id") => j <= i

\* C18: every file a save has written holds no record with an absent or empty
\* scholar_id and no two records with the same scholar_id; a save whose batch
\* had a record without scholar_id still wrote the file, and every record of
\* the batch that has a scholar_id is in it, with the fields (other than the
\* publication list, which is merged) of the batch's last record for that id.
C18_OneRecordPerId ==
    /\ \A p \in Paths :
          /\ \A i \in 1..Len(files[p].data) :
                Truthy(Get(files[p].data[i], "scholar_id"))
          /\ \A i \in 1..Len(files[p].data) : \A j \in 1..Len(files[p].data) :
                Get(files[p].data[i], "scholar_id") = Get(files[p].data[j], "scholar_id")
                => i = j
    /\ saves >= 1 =>
          /\ files[lastPath].exists
          /\ \A i \in WithId :
                /\ HasAuthor(files[lastPath].data, Get(LastIncoming[i], "scholar_id"))
                /\ LastOfId(i) =>
                      \A f \in DOMAIN LastIncoming[i] \ {"publications"} :
                          Get(AuthorOf(files[lastPath].data,
                                       Get(LastIncoming[i], "scholar_id")), f)
                             = LastIncoming[i][f]

\* a save whose batch had a record without scholar_id, in either form (absent,
\* empty), and another record that was saved
C18_Witness ==
    /\ saves >= 1
    /\ WithId # {}
    /\ WithId # 1..Len(LastIncoming)
    /\ \A i \in WithId :
          HasAuthor(files[lastPath].data, Get(LastIncoming[i], "scholar_id"))

-----------------------------------------------------------------------------
(* C19 *)

\* C19: no step takes a scholar_id out of a dataset file: the ids of the file
\* before a step are all among the ids of the file after it.
C19_AuthorsNeverDeleted ==
    [][\A p \in Paths : AuthorIds(files[p].data) \subseteq AuthorIds(files'[p].data)]_vars

\* a second or later save wrote a file that still holds an author the file had
\* before and the batch of the save did not name
C19_Witness ==
    /\ saves >= 2
    /\ \E sid \in AuthorIds(lastLoaded) :
          /\ sid \notin AuthorIds(LastIncoming)
          /\ sid \in AuthorIds(files[lastPath].data)

-----------------------------------------------------------------------------
(* C20 *)

\* publication p is publication q with the stamp of the last save put on it
StampedNow(p, q) ==
    /\ ~Truthy(Get(q, "last_scraped"))
    /\ DOMAIN p = DOMAIN q \cup {"last_scraped"}
    /\ p["last_scraped"] = IsoZ(now - 1)
    /\ \A f \in DOMAIN q \ {"last_scraped"} : p[f] = q[f]

\* C20: every publication of every dataset file has a non-empty last_scraped,
\* and each publication the last save wrote is either a merged publication that
\* had its last_scraped already, unchanged, or a merged publication that lacked
\* it, with last_scraped set to the UTC time of that save followed by 'Z'.
C20_EveryPublicationStamped ==
    /\ \A path \in Paths : \A p \in AllPubs(files[path].data) :
          Truthy(Get(p, "last_scraped"))
    /\ saves >= 1 =>
          \A p \in AllPubs(files[lastPath].data) :
              \E q \in AllPubs(LastMergeStep) : p = q \/ StampedNow(p, q)

\* a save wrote a publication it stamped itself next to one that kept the stamp
\* of an earlier save
C20_Witness ==
    /\ saves >= 2
    /\ \E p \in AllPubs(files[lastPath].data) :
          \E q \in AllPubs(LastMergeStep) : StampedNow(p, q)
    /\ \E p \in AllPubs(files[lastPath].data) :
          /\ p \in AllPubs(LastMergeStep)
          /\ p["last_scraped"] # IsoZ(now - 1)

-----------------------------------------------------------------------------
(* C21 *)

\* the incoming publications of the last save for author `sid` with id `pid`
IncomingPubs(sid, pid) ==
    UNION { { q \in Range(PubsOf(LastIncoming[i])) : PubId(q) = pid } :
              i \in { j \in 1..Len(LastIncoming) :
                        Get(LastIncoming[j], "scholar_id") = sid } }

\* the stored publications of the last save that had a non-empty last_scraped,
\* as <<publication, author id>>
StoredStamped ==
    UNION { { <<e, Get(lastLoaded[i], "scholar_id")>> :
                e \in { x \in Range(PubsOf(lastLoaded[i])) :
                          Truthy(Get(x, "last_scraped")) } } :
              i \in 1..Len(lastLoaded) }

\* C21: a stored publication with a non-empty last_scraped, when no incoming
\* publication for it carries a last_scraped, has the same last_scraped in the
\* file the save wrote if it is still there; a publication without id written
\* for a stored author is a stored publication, unchanged.
C21_StampSetOnce ==
    saves >= 1 =>
        \A t \in StoredStamped :
            /\ (/\ Truthy(PubId(t[1]))
                /\ \A q \in IncomingPubs(t[2], PubId(t[1])) :
                       "last_scraped" \notin DOMAIN q)
               => \A m \in PubsWithId(files[lastPath].data, t[2], PubId(t[1])) :
                      Get(m, "last_scraped") = t[1]["last_scraped"]
            /\ \A m \in PubsWithId(files[lastPath].data, t[2], None) :
                  m \in Range(PubsOf(AuthorOf(lastLoaded, t[2])))

\* a later save merged an unstamped incoming publication into a publication
\* stamped by an earlier save, and the file has it with the earlier stamp
C21_Witness ==
    /\ saves >= 2
    /\ \E t \in StoredStamped :
          /\ Truthy(PubId(t[1]))
          /\ IncomingPubs(t[2], PubId(t[1])) # {}
          /\ \A q \in IncomingPubs(t[2], PubId(t[1])) : "last_scraped" \notin DOMAIN q
          /\ t[1]["last_scraped"] # IsoZ(now - 1)
          /\ \E m \in PubsWithId(files[lastPath].data, t[2], PubId(t[1])) :
                Get(m, "last_scraped") = t[1]["last_scraped"]

-----------------------------------------------------------------------------
(* C22 *)

\* the stamp of a publication is a timestamp of `age` days before now
StampedDaysAgo(pub, age) == Get(pub, "last_scraped") = IsoZ(now - age)

\* a stored author needs a refresh, in the words of the freshness rule
NeedsRefresh(author) ==
    \/ PubsOf(author) = <<>>
    \/ \E pub \in Range(PubsOf(author)) :
          \/ "last_scraped" \notin DOMAIN pub
          \/ pub["last_scraped"] \in {None, ""}
          \/ \A age \in 0..now : ~StampedDaysAgo(pub, age)
          \/ \E age \in (threshold_days + 1)..now : StampedDaysAgo(pub, age)

\* C22: when the configuration names no ids, a stored author is among the ids
\* the runner selected exactly when it has no publication, or a publication
\* whose last_scraped is absent, empty, not a timestamp, or more than
\* threshold_days days old; an author whose publications are all 10 days old is
\* selected at threshold 7 and not at threshold 14.
C22_NeedsRefreshExactly ==
    (pc # "boot" /\ config_ids = <<>>) =>
        \A i \in 1..Len(existing_authors) :
            /\ existing_authors[i]["scholar_id"] \in Range(scholarIds)
                  <=> NeedsRefresh(existing_authors[i])
            /\ (/\ PubsOf(existing_authors[i]) # <<>>
                /\ \A pub \in Range(PubsOf(existing_authors[i])) : StampedDaysAgo(pub, 10))
               => (existing_authors[i]["scholar_id"] \in Range(scholarIds)
                      <=> threshold_days = 7)

\* a run at threshold 14 that selected one stored author and left out another
\* whose publications are all 10 days old
C22_Witness ==
    /\ pc = "crawl"
    /\ config_ids = <<>>
    /\ threshold_days = 14
    /\ \E i \in 1..Len(existing_authors) :
          /\ PubsOf(existing_authors[i]) # <<>>
          /\ \A pub \in Range(PubsOf(existing_authors[i])) : StampedDaysAgo(pub, 10)
          /\ existing_authors[i]["scholar_id"] \notin Range(scholarIds)

-----------------------------------------------------------------------------
(* C23 *)

\* a stored publication whose last_scraped is a timestamp at most
\* threshold_days days old
FreshPub(pub) == \E age \in 0..threshold_days : StampedDaysAgo(pub, age)

\* C23: the skip hint start_scraping is called with is the set of the non-empty
\* author_pub_id values of the stored publications whose last_scraped is a
\* timestamp at most threshold_days days old; the id of a publication whose
\* last_scraped is absent, empty, not a timestamp or older is not in it.
C23_SkipHintExactlyFresh ==
    pc = "crawl" =>
        /\ skip_ids = { PubId(pub) : pub \in { x \in AllPubs(existing_authors) :
                                                 FreshPub(x) /\ PubId(x) \notin {None, ""} } }
        /\ \A pub \in AllPubs(existing_authors) :
              ~FreshPub(pub) => PubId(pub) \notin skip_ids

\* a crawl was started with a hint that names a fresh publication, while the
\* dataset also holds a stale publication with an id and a fresh one without
C23_Witness ==
    /\ pc = "crawl"
    /\ skip_ids # {}
    /\ \E pub \in AllPubs(existing_authors) : ~FreshPub(pub) /\ Truthy(PubId(pub))
    /\ \E pub \in AllPubs(existing_authors) : FreshPub(pub) /\ ~Truthy(PubId(pub))

-----------------------------------------------------------------------------
(* C24 *)

\* the scholar_ids of the stored authors, in dataset order
StoredIds == [i \in 1..Len(existing_authors) |-> existing_authors[i]["scholar_id"]]

\* C24: a crawl is started with the configured id list, as it is, when that
\* list is not empty, and otherwise with the ids of the stored authors that need
\* a refresh, in dataset order; with an empty configured list the run ends
\* without a crawl only if no stored author needs a refresh.
C24_CrawlInput ==
    /\ pc = "crawl" =>
          scholarIds = IF config_ids # <<>> THEN config_ids
                       ELSE EntriesAt(StoredIds,
                                { i \in 1..Len(existing_authors) :
                                    NeedsRefresh(existing_authors[i]) }, 1)
    /\ (pc = "exit" /\ log = <<Event("exit", 0, 0)>>) =>
          /\ config_ids = <<>>
          /\ \A i \in 1..Len(existing_authors) : ~NeedsRefresh(existing_authors[i])

\* a crawl was started with the configured ids though a stored author named
\* there needs no refresh, and another stored author is not in the input
C24_Witness ==
    /\ pc = "crawl"
    /\ config_ids # <<>>
    /\ scholarIds = config_ids
    /\ \E i \in 1..Len(existing_authors) :
          /\ ~NeedsRefresh(existing_authors[i])
          /\ StoredIds[i] \in Range(scholarIds)
    /\ \E i \in 1..Len(existing_authors) :
          /\ NeedsRefresh(existing_authors[i])
          /\ StoredIds[i] \notin Range(scholarIds)

-----------------------------------------------------------------------------
(* C25 *)

\* the file is missing or does not hold a list of author objects
DoesNotLoad(file) == ~file.exists \/ IsDamaged(file, Damage)

\* C25: a save that found the dataset file missing, unreadable, not JSON or of
\* the wrong shape, and whose write met no failure, did not raise; and a run
\* that found such a file at its start went on with an empty dataset.
C25_LoadNeverFails ==
    /\ \A i \in 1..Len(log) :
          (/\ log[i].ev = "save"
           /\ DoesNotLoad(log[i].before)
           /\ log[i].fault = "none")
          => ~log[i].failed
    /\ (pc # "boot" /\ saves = 0 /\ DoesNotLoad(files[results_file]))
          => (exit_code # 1 /\ existing_authors = <<>>)

-----------------------------------------------------------------------------
(* C26 *)

\* C26: every step leaves each dataset file as it was or as a complete dataset
\* (a readable list of author objects): no step leaves a partially written file.
C26_AtomicSave ==
    [][\A p \in Paths :
          \/ files'[p] = files[p]
          \/ files'[p].exists /\ "damage" \notin DOMAIN files'[p]]_vars

-----------------------------------------------------------------------------
(* C27 *)

\* the last thing that happened is a call of merge_and_save_results
JustSaved == log # <<>> /\ log[Len(log)].ev = "save"

\* the file of the last save holds the merged data of that save
LastSaveWritten ==
    files[lastPath] = WrittenFile(MergedResults(lastLoaded, LastPartialAuthors,
                                                IsoZ(now - 1)))

\* C27: a call of merge_and_save_results after which the file does not hold the
\* merged data raised to its caller; a run whose crawl returned and whose final
\* save raised ends with exit 2, and one that ends with exit 0 after a final
\* save has the merged data in the file.
C27_SaveFailureSurfaced ==
    JustSaved =>
        /\ ~LastSaveWritten => log[Len(log)].failed
        /\ log[Len(log)].op = "final" =>
              /\ log[Len(log)].failed => exit_code = 2
              /\ exit_code = 0 => LastSaveWritten

\* a run fetched an author, its final save met a write failure, and it ended
\* with exit 2
C27_Witness ==
    /\ JustSaved
    /\ log[Len(log)].op = "final"
    /\ log[Len(log)].fault \in {"open_fails", "dump_fails"}
    /\ authorsList # <<>>
    /\ ~LastSaveWritten
    /\ exit_code = 2

-----------------------------------------------------------------------------
(* C28 *)

\* crawl classified an error as a block, or gave up on its time budget
BlockDetected == \E i \in 1..Len(log) : log[i].ev \in {"blocked", "timeout"}

\* C28: a run that has ended has exit status 0, 2 or 3; the status is 3 exactly
\* when a block was detected during the crawl; and when it is 3 every author
\* fetched before the block is in the configured dataset file.
C28_ExitClasses ==
    pc = "exit" =>
        /\ exit_code \in {0, 2, 3}
        /\ exit_code = 3 <=> BlockDetected
        /\ exit_code = 3 =>
              \A i \in 1..Len(authorsList) :
                  HasAuthor(LoadExisting(files[results_file]),
                            make_serializable(authorsList[i])["scholar_id"])

-----------------------------------------------------------------------------
(* C29 *)

\* the batch positions whose record was merged into a stored author and is the
\* last record of the batch for that author
MergedInto ==
    { i \in WithId : LastOfId(i) /\ HasAuthor(lastLoaded, LastIncoming[i]["scholar_id"]) }

\* the fields of an author record other than the publication list
AuthorFields(author) == [f \in DOMAIN author \ {"publications"} |-> author[f]]

\* C29: after a save that merged an incoming record into a stored author, the
\* author's record in the file has, apart from the publication list, exactly
\* the fields of the incoming record with the incoming values: coauthors
\* included, and no field of the stored record that the incoming one lacks.
C29_AuthorFieldsReplaced ==
    saves >= 1 =>
        \A i \in MergedInto :
            AuthorFields(AuthorOf(files[lastPath].data, LastIncoming[i]["scholar_id"]))
               = AuthorFields(LastIncoming[i])

\* a save merged a record into a stored author that had a field the record
\* lacks, and the record brought a coauthors list
C29_Witness ==
    /\ saves >= 2
    /\ \E i \in MergedInto :
          /\ "coauthors" \in DOMAIN LastIncoming[i]
          /\ "name" \in DOMAIN AuthorOf(lastLoaded, LastIncoming[i]["scholar_id"])
          /\ "name" \notin DOMAIN AuthorOf(files[lastPath].data,
                                           LastIncoming[i]["scholar_id"])

-----------------------------------------------------------------------------
(* C30 *)

\* C30: after a save that merged an incoming record into a stored author, a
\* field that was non-empty on the stored record and is absent or empty on the
\* incoming one still has the stored value in the file.
C30_NonEmptyFieldsKept ==
    saves >= 1 =>
        \A i \in MergedInto :
            \A f \in DOMAIN AuthorOf(lastLoaded, LastIncoming[i]["scholar_id"])
                    \ {"publications", "coauthors", "_class_attributes"} :
                (/\ Truthy(AuthorOf(lastLoaded, LastIncoming[i]["scholar_id"])[f])
                 /\ ~Truthy(Get(LastIncoming[i], f)))
                => Get(AuthorOf(files[lastPath].data, LastIncoming[i]["scholar_id"]), f)
                      = AuthorOf(lastLoaded, LastIncoming[i]["scholar_id"])[f]

-----------------------------------------------------------------------------
(* C31 *)

\* the publications stored under scholar_id `sid` in a dataset
PubsOfId(dataset, sid) == PubsOf(AuthorOf(dataset, sid))

-----------------------------------------------------------------------------
(* C32 *)

\* the dedupe keys of the publications of author n of a dataset
KeysOf(dataset, n) == { DedupeKey(p) : p \in Range(PubsOf(dataset[n])) }

\* the scholar_ids of a list of records, in order
IdsOf(dataset) == [i \in 1..Len(dataset) |-> Get(dataset[i], "scholar_id")]

\* the positions of the last batch that bring a scholar_id for the first time:
\* one that is not stored and not at an earlier position
Arrivals ==
    { i \in WithId :
        /\ ~HasAuthor(lastLoaded, LastIncoming[i]["scholar_id"])
        /\ \A j \in WithId : j < i =>
              LastIncoming[j]["scholar_id"] # LastIncoming[i]["scholar_id"] }

\* C32: in every dataset file no dedupe key occurs in two publications, of one
\* author or of two; the authors of the file a save wrote are the stored
\* authors in file order followed by the new ones in order of arrival; and a key
\* that several authors held when the deduplication began is in the file under
\* the first of them in that order, and under no other.
C32_DatasetWideDedupe ==
    /\ \A p \in Paths :
          /\ \A a \in 1..Len(files[p].data) : \A b \in 1..Len(files[p].data) :
                a # b => KeysOf(files[p].data, a) \cap KeysOf(files[p].data, b) = {}
          /\ \A a \in 1..Len(files[p].data) :
                \A i \in 1..Len(PubsOf(files[p].data[a])) :
                    \A j \in 1..Len(PubsOf(files[p].data[a])) :
                        i # j => DedupeKey(PubsOf(files[p].data[a])[i])
                                    # DedupeKey(PubsOf(files[p].data[a])[j])
    /\ saves >= 1 =>
          /\ IdsOf(files[lastPath].data)
                = IdsOf(lastLoaded) \o EntriesAt(IdsOf(LastIncoming), Arrivals, 1)
          /\ \A a \in 1..Len(LastDedupeInput) :
                KeysOf(files[lastPath].data, a)
                   = KeysOf(LastDedupeInput, a) \ KeysBefore(LastDedupeInput, a)

\* a save merged two authors that held publications with one key, and the file
\* has the key under the first of them only
C32_Witness ==
    /\ saves >= 1
    /\ \E a \in 1..Len(LastDedupeInput) : \E b \in 1..Len(LastDedupeInput) :
          /\ a < b
          /\ KeysOf(LastDedupeInput, a) \cap KeysOf(LastDedupeInput, b) # {}
          /\ KeysOf(LastDedupeInput, a) \subseteq KeysOf(files[lastPath].data, a)
          /\ KeysOf(LastDedupeInput, a) \cap KeysOf(files[lastPath].data, b) = {}

-----------------------------------------------------------------------------
(* C33 *)

\* identity k got a fetch attempt
Attempted(k) == EventsOf(k, "attempt") # {}

\* the run has made no fetch attempt yet
NoAttemptYet == \A i \in DOMAIN log : log[i].ev # "attempt"

\* start_scraping is entered with identities to crawl
CrawlStarts == pc = "boot" /\ SelectedIds # <<>>

\* C33, in states: at most one validation request is made; a run that has ended
\* without an abort has attempted every identity it was given, whatever the
\* cache held and whatever the validation request gave.
C33_Attempts ==
    /\ Len(validation) <= 1
    /\ (pc = "boot" => validation = <<>>)
    /\ (pc = "exit" /\ ~Aborted) => \A k \in DOMAIN scholarIds : Attempted(k)

\* C33, in steps: whatever the cache holds, start_scraping enters the crawl at
\* the first of the selected identities; the validation request is made there
\* and nowhere else, before any fetch attempt, and only for a cache with
\* cookies; the cache file is removed exactly when the response is a block
\* (status 429 or 302, 'sorry' in the final url, captcha text in the body), and
\* is otherwise left as it was, also when the request fails.
C33_Start ==
    /\ CrawlStarts =>
          /\ pc' = "crawl" /\ idx' = 1 /\ scholarIds' = SelectedIds
          /\ IF session_file = "cookies"
             THEN /\ Len(validation') = 1
                  /\ session_file' = IF Blocked(validation'[1]) THEN "absent"
                                     ELSE "cookies"
             ELSE UNCHANGED sessVars
    /\ ~CrawlStarts => UNCHANGED sessVars
    /\ validation' # validation => NoAttemptYet

-----------------------------------------------------------------------------
(* C34 *)

\* the stored authors the last call of merge_and_save_results was given no
\* record for, and whose stored record is stamped and has no dedupe key twice
Unnamed ==
    { sid \in AuthorIds(lastLoaded) \
                { Get(make_serializable(LastPartialAuthors[i]), "scholar_id") :
                    i \in 1..Len(LastPartialAuthors) } :
        LET pubs == PubsOf(AuthorOf(lastLoaded, sid))
        IN /\ \A i \in DOMAIN pubs : Truthy(Get(pubs[i], "last_scraped"))
           /\ \A i \in DOMAIN pubs : \A j \in DOMAIN pubs :
                 i # j => DedupeKey(pubs[i]) # DedupeKey(pubs[j]) }

\* the statement as the spec has it: a stored author that is not among the new
\* records, and whose record is stamped and deduplicated, has after the save the
\* record it had before.
C34_Frame ==
    saves >= 1 =>
        \A sid \in Unnamed :
            /\ HasAuthor(files[lastPath].data, sid)
            /\ AuthorOf(files[lastPath].data, sid) = AuthorOf(lastLoaded, sid)

\* C34: a stored author that is not among the new records, and whose record is
\* stamped and deduplicated, has after the save the fields it had before and
\* the publications it had before, in their order and unchanged, less those
\* whose dedupe key an author earlier in the saved dataset holds.
C34_FrameUpToDedupe ==
    saves >= 1 =>
        \A sid \in Unnamed :
            /\ HasAuthor(files[lastPath].data, sid)
            /\ AuthorOf(files[lastPath].data, sid)
                  = AfterDedupe(AuthorOf(lastLoaded, sid), files[lastPath].data)

\* a save that was given records for one stored author and none for another
\* one that has publications, and that left the other one as it was
C34_Witness ==
    /\ saves >= 2
    /\ \E r \in Range(LastIncoming) : HasAuthor(lastLoaded, Get(r, "scholar_id"))
    /\ \E sid \in Unnamed :
          /\ PubsOf(AuthorOf(lastLoaded, sid)) # <<>>
          /\ AuthorOf(files[lastPath].data, sid) = AuthorOf(lastLoaded, sid)

-----------------------------------------------------------------------------
(* C35 *)

\* C35: the file a final save wrote (the runner's in-memory merge of the stored
\* dataset with the fetched records, then merge_and_save_results of the whole
\* merged list) is the file one call of merge_and_save_results with the fetched
\* records alone would have written.
C35_FinalPathIsOneMerge ==
    (saves >= 1 /\ lastOp = "final") =>
        files[lastPath].data = MergedResults(lastLoaded, lastBatch, IsoZ(now - 1))

-----------------------------------------------------------------------------
(* C36 *)

\* a publication whose last_scraped is a timestamp more than threshold_days old
StalePub(pub) == \E age \in (threshold_days + 1)..now : StampedDaysAgo(pub, age)

\* a stored author that is selected only because of the age of a publication:
\* every publication has a timestamp, one of them too old
SelectedForAgeOnly(author) ==
    /\ \A pub \in Range(PubsOf(author)) : \E age \in 0..now : StampedDaysAgo(pub, age)
    /\ \E pub \in Range(PubsOf(author)) : StalePub(pub)

\* the run fetched a record of `author` that has all its stale publications
RefetchedWithStale(author) ==
    \E r \in Range(Fetched) :
        /\ Get(r, "scholar_id") = Get(author, "scholar_id")
        /\ \A pub \in Range(PubsOf(author)) :
              StalePub(pub) => \E q \in Range(PubsOf(r)) : PubId(q) = PubId(pub)

\* C36: when a run has ended with its final save, a stored author that was
\* selected only because of the age of a publication, and that the run fetched
\* with its stale publications, is not selected by a run that starts now with
\* the same threshold.
C36_RefreshMakesFresh ==
    FinalSaved =>
        \A i \in 1..Len(existing_authors) :
            (/\ SelectedForAgeOnly(existing_authors[i])
             /\ RefetchedWithStale(existing_authors[i]))
            => ~check_author_needs_scraping(
                    AuthorOf(files[results_file].data,
                             Get(existing_authors[i], "scholar_id")),
                    now, threshold_days)

-----------------------------------------------------------------------------
(* C37 *)

\* the age in days of a publication whose last_scraped is a timestamp
AgeOf(pub) == CHOOSE age \in 0..now : StampedDaysAgo(pub, age)

\* the stored publications whose last_scraped is a timestamp, with their author
Timestamped ==
    UNION { { <<pub, existing_authors[i]>> :
                pub \in { x \in Range(PubsOf(existing_authors[i])) :
                            \E age \in 0..now : StampedDaysAgo(x, age) } } :
            i \in 1..Len(existing_authors) }

\* C37: when start_scraping has been called, every stored publication whose
\* last_scraped is a timestamp is of exactly one kind: older than threshold_days,
\* and then its author is one check_author_needs_scraping returns and its id is
\* not in the skip hint; or at most threshold_days old, and then its id, if not
\* empty, is in the skip hint. Hence every publication with a non-empty id of an
\* author that check_author_needs_scraping does not return is in the skip hint.
C37_FreshnessDecisionsAgree ==
    pc = "crawl" =>
        /\ \A pa \in Timestamped :
              IF AgeOf(pa[1]) > threshold_days
              THEN /\ check_author_needs_scraping(pa[2], now, threshold_days)
                   /\ Get(pa[2], "scholar_id") \in
                         Range(IdsNeedingScraping(existing_authors, now, threshold_days))
                   /\ PubId(pa[1]) \notin skip_ids
              ELSE Truthy(PubId(pa[1])) => PubId(pa[1]) \in skip_ids
        /\ \A i \in 1..Len(existing_authors) :
              ~check_author_needs_scraping(existing_authors[i], now, threshold_days)
              => \A pub \in Range(PubsOf(existing_authors[i])) :
                    Truthy(PubId(pub)) => PubId(pub) \in skip_ids

\* a run that starts on a dataset with a publication exactly threshold_days old,
\* which is in the skip hint, and one a day older, which is not
C37_Witness ==
    /\ pc = "crawl"
    /\ \E pa \in Timestamped :
          AgeOf(pa[1]) = threshold_days /\ PubId(pa[1]) \in skip_ids
    /\ \E pa \in Timestamped :
          /\ AgeOf(pa[1]) = threshold_days + 1
          /\ Truthy(PubId(pa[1])) /\ PubId(pa[1]) \notin skip_ids
    /\ \E i \in 1..Len(existing_authors) :
          /\ PubsOf(existing_authors[i]) # <<>>
          /\ ~check_author_needs_scraping(existing_authors[i], now, threshold_days)

-----------------------------------------------------------------------------
(* C38 *)

\* the configuration names no ids, and the stored dataset (no file, or a list
\* of author objects) is empty or has no author that needs a refresh
NothingToScrape ==
    /\ pc = "boot"
    /\ config_ids = <<>>
    /\ ~RunnerLoadRaises(files[results_file])
    /\ \A author \in Range(LoadExisting(files[results_file])) : ~NeedsRefresh(author)

\* C38: a run that starts with no configured ids, and with a stored dataset that
\* is empty or in which no author needs a refresh, ends in its first step with
\* exit status 0: it makes no fetch attempt, does not touch the session cache
\* and makes no validation request, and writes no file.
C38_NothingToDo ==
    [][NothingToScrape =>
          /\ pc' = "exit" /\ exit_code' = 0
          /\ \A i \in DOMAIN log' : log'[i].ev = "exit"
          /\ authorsList' = <<>>
          /\ UNCHANGED <<files, saves, session_file, validation>>]_vars

\* a run over a stored dataset with publications, all fresh, and with a cached
\* session with cookies, has ended with status 0 and without a validation request
C38_Witness ==
    /\ pc = "exit" /\ exit_code = 0
    /\ config_ids = <<>>
    /\ AllPubs(existing_authors) # {}
    /\ \A author \in Range(existing_authors) : ~NeedsRefresh(author)
    /\ session_file = "cookies" /\ validation = <<>>
    /\ saves = 0 /\ files[results_file].data = existing_authors

-----------------------------------------------------------------------------
(* C39 *)

\* every identity has had at most max_retries attempts, and an identity the
\* crawl is done with has ended in one of the three outcomes
C39_Bounded ==
    \A k \in DOMAIN outcome :
        /\ Cardinality(EventsOf(k, "attempt")) <= max_retries
        /\ outcome[k] \in {"pending", "Success", "SoftFailure", "HardAbort"}
        /\ (k < idx \/ pc = "exit") =>
              \/ outcome[k] \in {"Success", "SoftFailure", "HardAbort"}
              \/ \E j \in 1..(k - 1) : outcome[j] = "HardAbort"

\* one pass: the position in scholarIds stays or moves on by one, an outcome
\* once reached stays, and nothing happens after the exit
C39_OnePass ==
    /\ pc # "exit"
    /\ pc # "boot" => idx' \in {idx, idx + 1}
    /\ \A k \in DOMAIN outcome :
          outcome[k] # "pending" => (k \in DOMAIN outcome' /\ outcome'[k] = outcome[k])

\* C39: a run whose fetch attempts all return reaches its exit; until then every
\* identity gets at most max_retries attempts and, unless a block ended the run
\* before it, ends in exactly one of Success, SoftFailure and HardAbort; and the
\* identities are gone through once.
C39_Terminates ==
    /\ <>(pc = "exit" /\ exit_code \in {0, 2, 3})
    /\ []C39_Bounded
    /\ [][C39_OnePass]_vars

\* a run has ended in which one identity was given up after max_retries
\* attempts, more than one, and another one was fetched
C39_Witness ==
    /\ pc = "exit"
    /\ Len(scholarIds) = 2
    /\ \E k \in DOMAIN outcome :
          /\ outcome[k] = "SoftFailure" /\ max_retries >= 2
          /\ Cardinality(EventsOf(k, "attempt")) = max_retries
    /\ SomeOutcome("Success")

-----------------------------------------------------------------------------
(* C40 *)

\* C40: no step of a run creates or changes a dataset file at a path other than
\* the configured results_file.
C40_OnlyConfiguredFile ==
    [][\A p \in Paths : p # results_file => files'[p] = files[p]]_vars

====
